---- MODULE Spec2Model ----
(***************************************************************************)
(* Model of pypeit/core/findobj_skymask.py: the echelle cross-order linker *)
(* ech_objfind, as a state machine over the phases of one call.            *)
(*                                                                         *)
(* Units.  Fractional slit positions are integers in units of 1/FracUnit   *)
(* (half thousandths), so that the median of two detections is exact.      *)
(* S/N values are integers in units of 1.0.  fof_link and plate_scale are  *)
(* in hundredths of an arcsecond.                                          *)
(***************************************************************************)
EXTENDS Integers, Sequences, FiniteSets, TLC

(* ---- bounds of the model ---- *)
NOrders == 2
MaxDet == 3

(* ---- defaults of ech_objfind's keyword arguments ---- *)
fof_link == 150
plate_scale == 20
max_snr == 2
min_snr == 1
nabove_min_snr == 2
nperorder == 2

FracUnit == 2 * 1000
Orders == 0..(NOrders - 1)
\* fractional positions 0.1, 0.3, 0.5, 0.9 of the per-order detections
FracVals == {200, 600, 1000, 1800}
\* the quick-look S/N values the boxcar extraction may return
SNRVals == {1, 2, 3}
\* the S/N of one group on every order: any values on the first two orders; the orders
\* after them are taken to show the S/N of the second
SNRColumns == {c \in [Orders -> SNRVals] : \A o \in Orders : o > 1 => c[o] = c[1]}
\* fractional position of the hand aperture, when hand_extract_dict is given
HandVals == {600, 1000}

(* ---- numpy helpers ---- *)
Abs(x) == IF x < 0 THEN -x ELSE x

Range(s) == {s[i] : i \in DOMAIN s}

SetMin(S) == CHOOSE m \in S : \A x \in S : m <= x

SetMax(S) == CHOOSE m \in S : \A x \in S : x <= m

RECURSIVE SortedSeqOf(_)
\* the elements of a finite set of integers in increasing order (np.where, np.unique)
SortedSeqOf(S) == IF S = {} THEN <<>> ELSE <<SetMin(S)>> \o SortedSeqOf(S \ {SetMin(S)})

RECURSIVE SumSeq(_)
SumSeq(s) == IF s = <<>> THEN 0 ELSE Head(s) + SumSeq(Tail(s))

\* an array given by a rule, with its elements computed (a numpy array holds values)
AsArray(s) == s \o <<>>

\* the values of s at the indices idx
Take(s, idx) == AsArray([k \in 1..Len(idx) |-> s[idx[k]]])

\* the values of s at the (increasing) indices of the set I
Pick(s, I) == Take(s, SortedSeqOf(I))

\* np.argsort of a short array: increasing, ties by increasing index
ArgSortArray(w) ==
    SortSeq(AsArray([i \in 1..Len(w) |-> i]), LAMBDA a, b : w[a] < w[b] \/ (w[a] = w[b] /\ a < b))

ArgSort(v) == ArgSortArray(AsArray(v))

Reverse(s) == AsArray([i \in 1..Len(s) |-> s[Len(s) + 1 - i]])

\* twice np.median of a non-empty array (the mean of the two middle values when even)
Median2Sorted(s, n) ==
    IF n % 2 = 1 THEN 2 * s[(n + 1) \div 2] ELSE s[n \div 2] + s[n \div 2 + 1]

Median2(v) == Median2Sorted(SortSeq(AsArray(v), LAMBDA a, b : a < b), Len(v))

\* first index (1-based) of the minimum of a non-empty array: np.argmin
ArgMinArray(w) == SetMin({i \in 1..Len(w) : \A j \in 1..Len(w) : w[i] <= w[j]})

ArgMin(v) == ArgMinArray(AsArray(v))

\* int(np.round(x * 1000)) for x in units of 1/FracUnit: round half to even
Round1000(x) ==
    LET q == x \div 2
    IN  IF x % 2 = 0 THEN q ELSE IF q % 2 = 0 THEN q ELSE q + 1

(* ---- geometry fixture ---- *)
\* median over the spectral direction of slit_righ - slit_left, per order (pixels)
slit_width(iord) == IF iord % 2 = 0 THEN 20 ELSE 40

\* the echelle order number of each order index
order_vec(iord) == 30 - iord

VARIABLES
    pc,            \* phase of the call
    f_spats,       \* whether hand_extract_dict is given, and the positions of its apertures
    sobjs,         \* detections of the per-order finder, as added order by order
    obj_id_init,   \* FOF group of each detection
    obj_id,        \* group of each object after duplicate resolution (grows in gap filling)
    uni_obj_id,    \* the group IDs, sorted by fractional position
    uni_frac,      \* the fractional position of each group
    sobjs_align,   \* detections and synthesized objects
    SNR_arr,       \* quick-look S/N per (order, group)
    keep_obj,      \* which groups pruning kept
    kept_order,    \* the groups in the order pruning kept them
    sobjs_final,   \* the collection under construction after pruning
    ret            \* "none" while running, then what the call returned

\* the state of one call of create_skymask
VARIABLES
    sky_pc,           \* position in create_skymask
    sky_sobjs,        \* the argument sobjs
    thismask,         \* the on-slit pixels <<row, column>>
    box_rad_pix,      \* the argument box_rad_pix, NoValue when not given
    skymask_objflux,  \* the pixels the flux-based mask leaves usable
    skymask_fwhm,     \* the pixels the geometric mask leaves usable
    skymask           \* the returned mask: the usable on-slit pixels

\* the state of one call of objs_in_slit
VARIABLES
    slit_pc,           \* position in objs_in_slit
    peak_thresh,       \* the argument peak_thresh, in hundredths
    abs_thresh,        \* the argument abs_thresh
    trim_edg,          \* the argument trim_edg, <<left, right>>
    nperslit,          \* the argument nperslit, NoValue when not given
    use_user_fwhm,     \* the argument use_user_fwhm
    hand_extract_dict, \* the hand apertures, NoValue when not given
    boxcar_rad,        \* the argument boxcar_rad, NoValue for None
    x_peaks_all,       \* the rectified bins of the peaks of the smoothed S/N profile
    snr_peaks_all,     \* the smoothed S/N at each peak
    near_edge_bpm,     \* which peaks are within the trim margin of a boundary
    peaks_gpm,         \* which peaks become automatic detections
    slit_sobjs,        \* sobjs of objs_in_slit
    slit_ret           \* "none" while running, then how the call ended

VARIABLES
    fn_pc,             \* "call" before a single step has run, "done" after
    fn_in,             \* the inputs of the step
    fn_out             \* what the step computed

echvars == <<pc, f_spats, sobjs, obj_id_init, obj_id, uni_obj_id, uni_frac, sobjs_align,
             SNR_arr, keep_obj, kept_order, sobjs_final, ret>>

skyvars == <<sky_pc, sky_sobjs, thismask, box_rad_pix, skymask_objflux, skymask_fwhm, skymask>>

slitvars == <<slit_pc, peak_thresh, abs_thresh, trim_edg, nperslit, use_user_fwhm,
              hand_extract_dict, boxcar_rad, x_peaks_all, snr_peaks_all, near_edge_bpm, peaks_gpm,
              slit_sobjs, slit_ret>>

fnvars == <<fn_pc, fn_in, fn_out>>

vars == <<echvars, skyvars, slitvars, fnvars>>

\* None
NoValue == <<>>

\* a present value of an optional argument or attribute; None is NoValue
Some(v) == <<v>>

\* ech_objfind is not running
EchIdle ==
    /\ pc = "idle" /\ f_spats = [given |-> FALSE, vals |-> <<>>] /\ sobjs = <<>>
    /\ obj_id_init = <<>> /\ obj_id = <<>> /\ uni_obj_id = <<>> /\ uni_frac = <<>>
    /\ sobjs_align = <<>> /\ SNR_arr = <<>> /\ keep_obj = <<>> /\ kept_order = <<>>
    /\ sobjs_final = <<>> /\ ret = "none"

\* create_skymask is not running
SkyIdle ==
    /\ sky_pc = "idle" /\ sky_sobjs = <<>> /\ thismask = {} /\ box_rad_pix = NoValue
    /\ skymask_objflux = {} /\ skymask_fwhm = {} /\ skymask = {}

\* objs_in_slit is not running
SlitIdle ==
    /\ slit_pc = "idle" /\ peak_thresh = 0 /\ abs_thresh = 0 /\ trim_edg = <<0, 0>>
    /\ nperslit = NoValue /\ use_user_fwhm = FALSE
    /\ hand_extract_dict = [given |-> FALSE, aps |-> <<>>] /\ boxcar_rad = NoValue
    /\ x_peaks_all = <<>> /\ snr_peaks_all = <<>> /\ near_edge_bpm = <<>> /\ peaks_gpm = <<>>
    /\ slit_sobjs = <<>> /\ slit_ret = "none"

\* none of the steps is running
FnIdle == fn_pc = "idle" /\ fn_in = NoValue /\ fn_out = NoValue

(* ---- per-order detection (lines 415-463) ---- *)
\* sort key of a detection: order by order, then by spatial position on the order
DetKey(d) == d.ECH_ORDERINDX * (2 * FracUnit) + 2 * d.SPAT_FRACPOS + (IF d.hand_extract_flag THEN 1 ELSE 0)

RECURSIVE SeqOfDets(_)
SeqOfDets(D) ==
    IF D = {} THEN <<>>
    ELSE LET d == CHOOSE x \in D : \A y \in D : DetKey(x) <= DetKey(y)
         IN  <<d>> \o SeqOfDets(D \ {d})

\* an object as objs_in_slit returns it
NewDetection(iord, frac, hand) ==
    [ECH_ORDERINDX |-> iord, ECH_ORDER |-> order_vec(iord), SPAT_FRACPOS |-> frac,
     hand_extract_flag |-> hand, ECH_FRACPOS |-> -1, ECH_OBJID |-> -1, OBJID |-> -1,
     ech_frac_was_fit |-> FALSE, ech_snr |-> -1,
     FWHM |-> <<"fwhm", iord, frac>>,
     TRACE_SPAT |-> [kind |-> "traced", iord |-> iord, frac |-> frac],
     SPAT_PIXPOS |-> [kind |-> "traced", iord |-> iord, frac |-> frac]]

\* what objs_in_slit can yield on the good orders gd: at most nperorder automatic
\* detections per order (nperslit=nperorder), plus each hand aperture on every good order;
\* automatic detections colliding with a hand aperture are deleted
DetectionSets(hand, gd) ==
    LET Auto == {A \in SUBSET (gd \X FracVals) :
                   /\ \A o \in gd : Cardinality({p \in A : p[1] = o}) <= nperorder
                   /\ \A p \in A : p[2] \notin Range(hand.vals)}
        HandObjs == {NewDetection(o, hand.vals[k], TRUE) : o \in gd, k \in DOMAIN hand.vals}
    IN  {({NewDetection(p[1], p[2], FALSE) : p \in A} \cup HandObjs) : A \in Auto}

(* ---- friends-of-friends linking (lines 465-479) ---- *)
\* FOF_frac = fof_link / median(median(slit_width) * plate_scale_ord), as the fraction
\* FOF_frac_num / FOF_frac_den of the position unit
FOF_frac_num == 2 * fof_link * FracUnit

FOF_frac_den == Median2([k \in 1..NOrders |-> slit_width(k - 1) * plate_scale])

RECURSIVE FriendsOf(_, _, _, _)
\* the detections reachable from the set S through links shorter than num/den
FriendsOf(S, pos, num, den) ==
    IF \A i \in S : \A j \in DOMAIN pos : Abs(pos[i] - pos[j]) * den < num => j \in S
    THEN S
    ELSE FriendsOf(S \cup {j \in DOMAIN pos : \E i \in S : Abs(pos[i] - pos[j]) * den < num},
                   pos, num, den)

\* the group index of every point, given the first member of every point's group
GroupNumbers(first) ==
    AsArray([i \in DOMAIN first |-> Cardinality({g \in Range(first) : g < first[i]})])

\* pydl.spheregroup on (pos/1000, 0): the zero-based group index of every point, groups
\* being the transitive closures of the links and numbered by their first member
spheregroup(pos, num, den) ==
    GroupNumbers(AsArray([i \in DOMAIN pos |-> SetMin(FriendsOf({i}, pos, num, den))]))

fracpos(objs) == AsArray([i \in DOMAIN objs |-> objs[i].SPAT_FRACPOS])

orderindx(objs) == AsArray([i \in DOMAIN objs |-> objs[i].ECH_ORDERINDX])

\* lines 467-477
InitialGroups(objs) ==
    IF Len(objs) > 1 THEN spheregroup(fracpos(objs), FOF_frac_num, FOF_frac_den)
    ELSE AsArray([i \in DOMAIN objs |-> 0])

(* ---- duplicate resolution (lines 481-506) ---- *)
\* the duplicate search without the restriction to one order
OnOrder_AnyOrder(init, objs, g, iord) == {i \in DOMAIN objs : init[i] = g}

\* the indices of group g (of the initial grouping) on order iord (line 487)
OnOrder(init, objs, g, iord) == {i \in DOMAIN objs : init[i] = g /\ objs[i].ECH_ORDERINDX = iord}

\* line 491
OffOrder(init, objs, g, iord) == {i \in DOMAIN objs : init[i] = g /\ objs[i].ECH_ORDERINDX # iord}

\* np.argmin(np.abs(fracpos[ind] - frac_mean)), frac_mean = tot / n: the distances are
\* compared as |f * n - tot|
ClosestToMean(pos, ind, n, tot) == ArgMin([k \in DOMAIN ind |-> Abs(pos[ind[k]] * n - tot)])

\* the first duplicate keeps the ID whatever its distance
MinDistInd_First(objs, ind, off) == 1

\* position in ind (1-based) of the detection that keeps the group ID (lines 493-502)
MinDistInd(objs, ind, off) ==
    IF off # {}
    THEN ClosestToMean(fracpos(objs), ind, Cardinality(off), SumSeq(Pick(fracpos(objs), off)))
    ELSE 1

\* every displaced duplicate is given the same new ID
SpawnedIds_Same(ids, nrest) == AsArray([k \in 1..nrest |-> 1 + SetMax(Range(ids))])

\* the new IDs are not offset by the largest ID in use
SpawnedIds_NoOffset(ids, nrest) == AsArray([k \in 1..nrest |-> k])

\* the new IDs of the detections popped out of a group (line 506)
SpawnedIds(ids, nrest) == AsArray([k \in 1..nrest |-> k + SetMax(Range(ids))])

\* obj_id[ind_rest] = new
Assign(ids, ind_rest, new) ==
    AsArray([i \in DOMAIN ids |->
                IF \E k \in DOMAIN ind_rest : ind_rest[k] = i
                THEN new[CHOOSE k \in DOMAIN ind_rest : ind_rest[k] = i]
                ELSE ids[i]])

\* lines 503-506: ind without ind[min_dist_ind] takes new IDs
SpawnRest(ids, on, kept) == Assign(ids, SortedSeqOf(on \ {kept}), SpawnedIds(ids, Cardinality(on) - 1))

\* the loop body for one (group, order), on being the members of the group on the order
ResolveOn(ids, objs, on, off) ==
    IF Cardinality(on) > 1
    THEN SpawnRest(ids, on, SortedSeqOf(on)[MinDistInd(objs, SortedSeqOf(on), off)])
    ELSE ids

ResolveOne(ids, init, objs, g, iord) ==
    ResolveOn(ids, objs, OnOrder(init, objs, g, iord), OffOrder(init, objs, g, iord))

RECURSIVE ResolveFrom(_, _, _, _, _)
\* the double loop over (iobj, iord), flattened: step k is group k \div norders,
\* order k % norders
ResolveFrom(ids, init, objs, uni, k) ==
    IF k >= Len(uni) * NOrders THEN ids
    ELSE ResolveFrom(ResolveOne(ids, init, objs, uni[k \div NOrders + 1], k % NOrders),
                     init, objs, uni, k + 1)

ResolveDuplicates(init, objs) == ResolveFrom(init, init, objs, SortedSeqOf(Range(init)), 0)

(* ---- fractional position consolidation (lines 508-535) ---- *)
Members(ids, g) == {i \in DOMAIN ids : ids[i] = g}

\* the largest position of group g in place of the median
GroupFrac_Max(ids, objs, g) == SetMax(Range(Pick(fracpos(objs), Members(ids, g))))

\* np.median of the positions of group g (line 515)
GroupFrac(ids, objs, g) == Median2(Pick(fracpos(objs), Members(ids, g))) \div 2

\* uni_obj_id after the sort by fractional position (lines 508-522)
SortedGroupIds(ids, objs) ==
    Take(SortedSeqOf(Range(ids)),
         ArgSort([k \in 1..Cardinality(Range(ids)) |-> GroupFrac(ids, objs, SortedSeqOf(Range(ids))[k])]))

\* lines 524-532
Align(ids, objs) ==
    AsArray([i \in DOMAIN objs |->
        [objs[i] EXCEPT !.ECH_FRACPOS = GroupFrac(ids, objs, ids[i]),
                        !.ECH_OBJID = ids[i], !.OBJID = ids[i],
                        !.ech_frac_was_fit = FALSE]])

(* ---- gap filling (lines 539-627) ---- *)
\* the fractional position used for the trace of a synthesized object on order iord
\* (lines 544-577); nthis is the number of members of the group before any is added.
\* The robust linear fit of the first branch is evaluated outside this module: its
\* value is left open (fitted = TRUE)
FracMeanNew(nthis, ufrac) ==
    IF nthis > 3 /\ nthis < NOrders
    THEN [fitted |-> TRUE, frac |-> -1]
    ELSE [fitted |-> FALSE, frac |-> ufrac]

\* the member whose FWHM, maskwidth, smash_peakflux, THRESHOLD and BOX_RADIUS are copied
\* (lines 604-611): imin is the position, within the members of the group, of the one
\* nearest in order; the code then reads sobjs_align[imin]
NearestSource(objs, ids, g, iord) ==
    objs[ArgMin([k \in 1..Cardinality(Members(ids, g)) |->
                    Abs(Pick(orderindx(objs), Members(ids, g))[k] - iord)])]

\* the trace of a synthesized object (lines 595-600)
PredictedTrace(iord, fmn) ==
    [kind |-> IF fmn.fitted THEN "predicted_fit" ELSE "predicted", iord |-> iord, frac |-> fmn.frac]

\* the object synthesized for group g on order iord (lines 587-617)
NewSynthesized(objs, ids, g, ufrac, iord, fmn) ==
    [ECH_ORDERINDX |-> iord, ECH_ORDER |-> order_vec(iord), SPAT_FRACPOS |-> ufrac,
     hand_extract_flag |-> FALSE, ECH_FRACPOS |-> ufrac, ECH_OBJID |-> g, OBJID |-> g,
     ech_frac_was_fit |-> TRUE, ech_snr |-> -1,
     FWHM |-> NearestSource(objs, ids, g, iord).FWHM,
     TRACE_SPAT |-> PredictedTrace(iord, fmn), SPAT_PIXPOS |-> PredictedTrace(iord, fmn)]

\* the count of the group's objects taken over all orders
NumOnOrder_AnyOrder(objs, g, iord) ==
    Cardinality({i \in DOMAIN objs : objs[i].ECH_OBJID = g})

\* line 583-584
NumOnOrder(objs, g, iord) ==
    Cardinality({i \in DOMAIN objs : objs[i].ECH_OBJID = g /\ objs[i].ECH_ORDERINDX = iord})

\* lines 585-627 for one order
FillOrder(st, g, ufrac, fmn, iord, num_on_order) ==
    IF num_on_order = 0
    THEN [objs |-> Append(st.objs, NewSynthesized(st.objs, st.ids, g, ufrac, iord, fmn)),
          ids |-> Append(st.ids, g), err |-> FALSE]
    ELSE IF num_on_order = 1 THEN st
    ELSE [st EXCEPT !.err = TRUE]

RECURSIVE FillOrders(_, _, _, _, _, _)
\* the loop over the orders for one group (lines 581-627)
FillOrders(st, g, ufrac, fmn, iord, n) ==
    IF iord >= n \/ st.err THEN st
    ELSE FillOrders(FillOrder(st, g, ufrac, fmn, iord, NumOnOrder(st.objs, g, iord)),
                    g, ufrac, fmn, iord + 1, n)

RECURSIVE FillGroups(_, _, _, _)
\* the loop over the groups (line 539)
FillGroups(st, uni, ufracs, iobj) ==
    IF iobj > Len(uni) \/ st.err THEN st
    ELSE FillGroups(FillOrders(st, uni[iobj], ufracs[iobj],
                               FracMeanNew(Cardinality({i \in DOMAIN st.objs : st.objs[i].ECH_OBJID = uni[iobj]}),
                                           ufracs[iobj]),
                               0, NOrders),
                    uni, ufracs, iobj + 1)

(* ---- quick-look S/N (lines 631-668) ---- *)
\* sobjs_align.slitorder_objid_indices(order, objid)[0]
SlitOrderObjIndex(objs, order, g) ==
    SetMin({i \in DOMAIN objs : objs[i].ECH_ORDER = order /\ objs[i].ECH_OBJID = g})

\* line 666: the first object of every (order, group) takes the S/N measured along its
\* trace; its cell of SNR_arr is (its order index, the position of its group in uni)
WithSNR(objs, uni, snr) ==
    AsArray([i \in DOMAIN objs |->
        IF SlitOrderObjIndex(objs, objs[i].ECH_ORDER, objs[i].ECH_OBJID) = i
        THEN [objs[i] EXCEPT !.ech_snr =
                 snr[objs[i].ECH_ORDERINDX][CHOOSE k \in DOMAIN uni : uni[k] = objs[i].ECH_OBJID]]
        ELSE objs[i]])

\* slitfracpos_arr[iord, iobj] (line 668)
slitfracpos_arr(objs, uni, iord, iobj) ==
    objs[SlitOrderObjIndex(objs, order_vec(iord), uni[iobj])].SPAT_FRACPOS

(* ---- pruning (lines 670-716) ---- *)
\* line 679
hand_frac(hand) ==
    IF hand.given THEN {Round1000(hand.vals[k]) : k \in DOMAIN hand.vals} ELSE {-1000}

\* line 685
hand_ap_flag(objs, uni, hand, iobj) == Round1000(slitfracpos_arr(objs, uni, 0, iobj)) \in hand_frac(hand)

\* line 686
SNR_constraint(snr, iobj) ==
    \/ \E o \in Orders : snr[o][iobj] > max_snr
    \/ Cardinality({o \in Orders : snr[o][iobj] > min_snr}) >= nabove_min_snr

\* the budget test off by one
nperorder_constraint_Inclusive(iobj_keep) == (iobj_keep - 1) <= nperorder

\* line 687
nperorder_constraint(iobj_keep) == (iobj_keep - 1) < nperorder

\* the ranking without the reversal: ascending median S/N
isort_SNR_max_Ascending(snr, nobj) ==
    ArgSort([k \in 1..nobj |-> Median2([o \in 1..NOrders |-> snr[o - 1][k]])])

\* line 683: the groups from highest to lowest median S/N
isort_SNR_max(snr, nobj) ==
    Reverse(ArgSort([k \in 1..nobj |-> Median2([o \in 1..NOrders |-> snr[o - 1][k]])]))

\* the members of a kept group, renumbered (lines 690-693)
Renumber(sub, newid) ==
    AsArray([k \in DOMAIN sub |-> [sub[k] EXCEPT !.ECH_OBJID = newid, !.OBJID = newid]])

KeepCopy(objs, g, newid) == Renumber(Pick(objs, {i \in DOMAIN objs : objs[i].ECH_OBJID = g}), newid)

\* the kept objects appended without sorting them by order
SortByOrder_Unsorted(keep) == keep

\* line 697: the kept members in order of ECH_ORDERINDX
SortByOrder(keep) == Take(keep, ArgSort(orderindx(keep)))

\* lines 688-700: the group is kept
KeepGroup(st, objs, g, iobj, hand_flag) ==
    [iobj_keep |-> st.iobj_keep + 1,
     iobj_keep_not_hand |-> IF hand_flag THEN st.iobj_keep_not_hand ELSE st.iobj_keep_not_hand + 1,
     keep_obj |-> [st.keep_obj EXCEPT ![iobj] = TRUE],
     kept |-> Append(st.kept, iobj),
     sobjs_trim |-> st.sobjs_trim \o SortByOrder(KeepCopy(objs, g, st.iobj_keep))]

\* lines 685-708 for one group
PruneOne(st, objs, g, iobj, snr, hand_flag) ==
    IF (SNR_constraint(snr, iobj) /\ nperorder_constraint(st.iobj_keep)) \/ hand_flag
    THEN KeepGroup(st, objs, g, iobj, hand_flag)
    ELSE st

RECURSIVE PruneFrom(_, _, _, _, _, _, _)
\* the loop of lines 684-708 from position k of isort on; st holds iobj_keep,
\* iobj_keep_not_hand, keep_obj, the kept groups in order, and sobjs_trim
PruneFrom(st, objs, uni, hand, snr, isort, k) ==
    IF k > Len(isort) THEN st
    ELSE PruneFrom(PruneOne(st, objs, uni[isort[k]], isort[k], snr,
                            hand_ap_flag(objs, uni, hand, isort[k])),
                   objs, uni, hand, snr, isort, k + 1)

PruneAll(objs, uni, hand, snr) ==
    PruneFrom([iobj_keep |-> 1, iobj_keep_not_hand |-> 1,
               keep_obj |-> AsArray([k \in DOMAIN uni |-> FALSE]),
               kept |-> <<>>, sobjs_trim |-> <<>>],
              objs, uni, hand, snr, isort_SNR_max(snr, Len(uni)), 1)

(* ---- PCA trace refinement (lines 724-768) ---- *)
\* the S/N above which a predicted trace is replaced by the refined fit (line 766)
refit_snr == 1

\* column col (zero-based) of xfit_gweight for final object objid
RefinedTrace(objid, col) == [kind |-> "refined", iord |-> col, frac |-> objid]

\* the position of an object among the members of its group (enumerate, line 763)
ColumnOf(final, i) == Cardinality({j \in 1..(i - 1) : final[j].ECH_OBJID = final[i].ECH_OBJID})

\* lines 763-768 for every kept group
RefineTraces(final) ==
    AsArray([i \in DOMAIN final |->
        IF final[i].ech_frac_was_fit /\ final[i].ech_snr > refit_snr
        THEN [final[i] EXCEPT !.TRACE_SPAT = RefinedTrace(final[i].ECH_OBJID, ColumnOf(final, i)),
                              !.SPAT_PIXPOS = RefinedTrace(final[i].ECH_OBJID, ColumnOf(final, i))]
        ELSE final[i]])

(* ---- the call as a state machine ---- *)
Init ==
    /\ pc = "find"
    /\ f_spats \in {[given |-> FALSE, vals |-> <<>>]} \cup {[given |-> TRUE, vals |-> <<h>>] : h \in HandVals}
    /\ sobjs = <<>>
    /\ obj_id_init = <<>>
    /\ obj_id = <<>>
    /\ uni_obj_id = <<>>
    /\ uni_frac = <<>>
    /\ sobjs_align = <<>>
    /\ SNR_arr = <<>>
    /\ keep_obj = <<>>
    /\ kept_order = <<>>
    /\ sobjs_final = <<>>
    /\ ret = "none"
    /\ SkyIdle /\ SlitIdle /\ FnIdle

\* lines 415-463: the per-order finder runs on every unmasked order; the call returns
\* the empty collection when nothing was found
FindObjects ==
    /\ pc = "find"
    /\ \E gd \in SUBSET Orders : \E D \in DetectionSets(f_spats, gd) :
          /\ Cardinality(D) <= MaxDet
          /\ sobjs' = SeqOfDets(D)
          /\ pc' = IF D = {} THEN "done" ELSE "group"
          /\ ret' = IF D = {} THEN "empty" ELSE "none"
    /\ UNCHANGED <<f_spats, obj_id_init, obj_id, uni_obj_id, uni_frac, sobjs_align,
                   SNR_arr, keep_obj, kept_order, sobjs_final>>
    /\ UNCHANGED <<skyvars, slitvars, fnvars>>

\* lines 465-479
GroupObjects ==
    /\ pc = "group"
    /\ obj_id_init' = InitialGroups(sobjs)
    /\ pc' = "resolve"
    /\ UNCHANGED <<f_spats, sobjs, obj_id, uni_obj_id, uni_frac, sobjs_align,
                   SNR_arr, keep_obj, kept_order, sobjs_final, ret>>
    /\ UNCHANGED <<skyvars, slitvars, fnvars>>

\* lines 481-535
ResolveAndAlign ==
    /\ pc = "resolve"
    /\ \E ids \in {ResolveDuplicates(obj_id_init, sobjs)} :
       \E uni \in {SortedGroupIds(ids, sobjs)} :
          /\ obj_id' = ids
          /\ uni_obj_id' = uni
          /\ uni_frac' = AsArray([k \in DOMAIN uni |-> GroupFrac(ids, sobjs, uni[k])])
          /\ sobjs_align' = Align(ids, sobjs)
    /\ pc' = "fill"
    /\ UNCHANGED <<f_spats, sobjs, obj_id_init, SNR_arr, keep_obj, kept_order, sobjs_final, ret>>
    /\ UNCHANGED <<skyvars, slitvars, fnvars>>

\* lines 539-627; the fatal error of line 625 ends the call
FillGaps ==
    /\ pc = "fill"
    /\ \E st \in {FillGroups([objs |-> sobjs_align, ids |-> obj_id, err |-> FALSE],
                              uni_obj_id, uni_frac, 1)} :
          /\ sobjs_align' = st.objs
          /\ obj_id' = st.ids
          /\ pc' = IF st.err THEN "done" ELSE "snr"
          /\ ret' = IF st.err THEN "error" ELSE "none"
    /\ UNCHANGED <<f_spats, sobjs, obj_id_init, uni_obj_id, uni_frac,
                   SNR_arr, keep_obj, kept_order, sobjs_final>>
    /\ UNCHANGED <<skyvars, slitvars, fnvars>>

\* lines 631-668: the boxcar extraction yields an S/N for every (order, group)
QuickLook ==
    /\ pc = "snr"
    /\ \E cols \in [DOMAIN uni_obj_id -> SNRColumns] :
       \E snr \in {[o \in Orders |-> [k \in DOMAIN uni_obj_id |-> cols[k][o]]]} :
          /\ SNR_arr' = snr
          /\ sobjs_align' = WithSNR(sobjs_align, uni_obj_id, snr)
    /\ pc' = "prune"
    /\ UNCHANGED <<f_spats, sobjs, obj_id_init, obj_id, uni_obj_id, uni_frac,
                   keep_obj, kept_order, sobjs_final, ret>>
    /\ UNCHANGED <<skyvars, slitvars, fnvars>>

\* the call without the early return on nothing kept
PruneOutcome_NoReturn(nobj_trim) == "none"

\* lines 711-716: with nothing kept the call returns the empty collection
PruneOutcome(nobj_trim) == IF nobj_trim = 0 THEN "empty" ELSE "none"

\* lines 670-724
Prune ==
    /\ pc = "prune"
    /\ \E st \in {PruneAll(sobjs_align, uni_obj_id, f_spats, SNR_arr)} :
       \E nobj_trim \in {Cardinality({k \in DOMAIN st.keep_obj : st.keep_obj[k]})} :
          /\ keep_obj' = st.keep_obj
          /\ kept_order' = st.kept
          /\ sobjs_final' = IF PruneOutcome(nobj_trim) = "empty" THEN <<>> ELSE st.sobjs_trim
          /\ pc' = IF PruneOutcome(nobj_trim) = "empty" THEN "done" ELSE "refine"
          /\ ret' = PruneOutcome(nobj_trim)
    /\ UNCHANGED <<f_spats, sobjs, obj_id_init, obj_id, uni_obj_id, uni_frac, sobjs_align, SNR_arr>>
    /\ UNCHANGED <<skyvars, slitvars, fnvars>>

\* the check that leaves every object as ready as it is
ready_for_extraction_Unchecked(required) == TRUE

\* SpecObj.ready_for_extraction: the trace, FWHM, OBJID and box radius are all set
ready_for_extraction(required) == \A k \in DOMAIN required : required[k] # NoValue

\* lines 1408-1412, 811-815: no object of the collection fails the check
Vetted(objs) ==
    \A i \in DOMAIN objs :
        ready_for_extraction(
            IF "BOX_RADIUS" \in DOMAIN objs[i]
            THEN <<Some(objs[i].SPAT_PIXPOS), Some(objs[i].FWHM), objs[i].OBJID, objs[i].BOX_RADIUS>>
            ELSE <<Some(objs[i].TRACE_SPAT), Some(objs[i].FWHM),
                   IF objs[i].OBJID < 1 THEN NoValue ELSE Some(objs[i].OBJID)>>)

\* lines 726-815: the traces are refined, then every object is checked (msgs.error on the
\* first that fails) and the collection is returned
Refine ==
    /\ pc = "refine"
    /\ sobjs_final' = RefineTraces(sobjs_final)
    /\ pc' = "done"
    /\ ret' = IF Vetted(sobjs_final') THEN "final" ELSE "bad_specobj"
    /\ UNCHANGED <<f_spats, sobjs, obj_id_init, obj_id, uni_obj_id, uni_frac, sobjs_align,
                   SNR_arr, keep_obj, kept_order>>
    /\ UNCHANGED <<skyvars, slitvars, fnvars>>

Next == FindObjects \/ GroupObjects \/ ResolveAndAlign \/ FillGaps \/ QuickLook \/ Prune \/ Refine

Spec == Init /\ [][Next]_vars

(* ---- the same call with an arbitrary initial grouping ---- *)
\* the partitions of 1..n, every part numbered by its first member
Partitions(n) == {p \in [1..n -> 0..(n - 1)] :
                    \A i \in 1..n : p[i] <= Cardinality({p[j] : j \in 1..(i - 1)})}

\* lines 465-479 with the grouping primitive returning any grouping of the detections
GroupArbitrary ==
    /\ pc = "group"
    /\ obj_id_init' \in Partitions(Len(sobjs))
    /\ pc' = "resolve"
    /\ UNCHANGED <<f_spats, sobjs, obj_id, uni_obj_id, uni_frac, sobjs_align,
                   SNR_arr, keep_obj, kept_order, sobjs_final, ret>>
    /\ UNCHANGED <<skyvars, slitvars, fnvars>>

NextAnyGroup == FindObjects \/ GroupArbitrary \/ ResolveAndAlign \/ FillGaps

SpecAnyGroup == Init /\ [][NextAnyGroup]_vars

(* ---- the same call with hand apertures next to the automatic detections ---- *)
\* lines 399-463 with hand_extract_dict given: the first two orders are unmasked and carry
\* the hand aperture, and the finder returns at most nperorder automatic detections in all
FindObjectsAndHand ==
    /\ pc = "find"
    /\ f_spats.given
    /\ \E D \in DetectionSets(f_spats, {o \in Orders : o <= 1}) :
          /\ Cardinality({d \in D : ~d.hand_extract_flag}) <= nperorder
          /\ sobjs' = SeqOfDets(D)
          /\ pc' = "group"
    /\ UNCHANGED <<f_spats, obj_id_init, obj_id, uni_obj_id, uni_frac, sobjs_align,
                   SNR_arr, keep_obj, kept_order, sobjs_final, ret>>
    /\ UNCHANGED <<skyvars, slitvars, fnvars>>

NextAndHand ==
    FindObjectsAndHand \/ GroupObjects \/ ResolveAndAlign \/ FillGaps \/ QuickLook \/ Prune \/ Refine

SpecAndHand == Init /\ [][NextAndHand]_vars

(* ---- create_skymask (lines 31-147) ---- *)
\* the image has NSpec rows (spectral) and NSpat columns (spatial)
NSpec == 2
NSpat == 5

\* default of the keyword argument skymask_snr_thresh
skymask_snr_thresh == 1

\* the analytical S/N profile is kept in millionths
ProfileUnit == 1000 * 1000

Rows == 0..(NSpec - 1)

Cols == 0..(NSpat - 1)

\* the on-slit pixels of a straight slit with boundaries left and righ on every row
SlitPixels(left, righ) == {px \in Rows \X Cols : left <= px[2] /\ px[2] < righ}

\* the slits thismask is drawn from
SkySlits == {SlitPixels(0, NSpat), SlitPixels(1, NSpat - 1)}

\* the argument slit_left of the slit thismask describes
sky_slit_left(mask) == SetMin({px[2] : px \in mask})

\* the attributes create_skymask reads, for an automatic detection of S/N 10, a faint
\* one, one with zero peak flux, and one without peak flux (not found automatically);
\* FWHM and maskwidth in pixels
SkyObjKinds ==
    { [smash_peakflux |-> Some(5), smash_snr |-> 10, FWHM |-> 2, maskwidth |-> 12],
      [smash_peakflux |-> Some(5), smash_snr |-> 2, FWHM |-> 1, maskwidth |-> 1],
      [smash_peakflux |-> Some(0), smash_snr |-> 0, FWHM |-> 2, maskwidth |-> 8],
      [smash_peakflux |-> NoValue, smash_snr |-> 0, FWHM |-> 1, maskwidth |-> 0] }

\* an object of kind k whose trace is at column p on row 0 and moves by tilt columns per
\* row; SPAT_FRACPOS is kept as the numerator of the fraction over nsamp
SkyObject(k, p, tilt, mask) ==
    [smash_peakflux |-> k.smash_peakflux, smash_snr |-> k.smash_snr, FWHM |-> k.FWHM,
     maskwidth |-> k.maskwidth,
     SPAT_FRACPOS |-> p - sky_slit_left(mask),
     TRACE_SPAT |-> [r \in Rows |-> p + tilt * r]]

SkyObjects(mask) == {SkyObject(k, p, tilt, mask) : k \in SkyObjKinds, p \in Cols, tilt \in {0, 1}}

\* the number of objects passed in
SkyObjCounts == 0..2

\* the mask initialised empty instead of as a copy
CopyOfMask_Zeros(mask) == {}

\* np.copy(thismask) (lines 76, 97, 118)
CopyOfMask(mask) == mask

\* np.exp(np.fmax(-2.77*(sep*nsamp)**2/FWHM**2, -9.0)) in millionths, for sep*nsamp = d2/2
\* and the FWHM of SkyObjKinds (line 94)
GaussProfile(d2, w) ==
    IF w = 1
    THEN CASE d2 = 1 -> 500324 [] d2 = 3 -> 1965 [] OTHER -> 123
    ELSE CASE d2 = 1 -> 841032 [] d2 = 3 -> 210530 [] d2 = 5 -> 13192 [] d2 = 7 -> 207
           [] OTHER -> 123

\* qobj[k] in millionths (lines 86-94): xtmp[k] = (k + 0.5)/nsamp, and twice the
\* separation in pixels is |2k + 1 - 2 SPAT_FRACPOS nsamp|
qobj(obj, k) ==
    IF Abs(2 * k + 1 - 2 * obj.SPAT_FRACPOS) <= 2 * obj.maskwidth
    THEN obj.smash_snr * GaussProfile(Abs(2 * k + 1 - 2 * obj.SPAT_FRACPOS), obj.FWHM)
    ELSE 0

\* twice np.interp(ximg, xtmp, qobj) at the pixel u columns right of the left boundary,
\* ximg = u/nsamp: below the first sample the first value, else the mean of the samples
\* on either side
Interp2(obj, u) == IF u = 0 THEN 2 * qobj(obj, 0) ELSE qobj(obj, u - 1) + qobj(obj, u)

\* line 85
HasPeakFlux(obj) == obj.smash_peakflux # Some(0) /\ obj.smash_peakflux # NoValue

\* lines 76-95
ObjfluxMask(mask, objs) ==
    {px \in CopyOfMask(mask) :
        \A i \in DOMAIN objs :
            HasPeakFlux(objs[i]) =>
                Interp2(objs[i], px[2] - sky_slit_left(mask)) < 2 * skymask_snr_thresh * ProfileUnit}

\* line 108
skymask_radius(obj, box) == IF box # NoValue THEN box[1] ELSE obj.FWHM

\* line 111
objmask_now(mask, obj, box) ==
    {px \in mask : /\ px[2] > obj.TRACE_SPAT[px[1]] - skymask_radius(obj, box)
                   /\ px[2] < obj.TRACE_SPAT[px[1]] + skymask_radius(obj, box)}

\* lines 106-112
MaskAroundObjects(mask, objs, box) ==
    CopyOfMask(mask) \ UNION {objmask_now(mask, objs[i], box) : i \in DOMAIN objs}

\* the guard with no margin at 90%
TooMuchMasked_Inclusive(fw, mask) == Cardinality(fw) * 10 <= Cardinality(mask)

\* line 115: np.sum(skymask_fwhm)/np.sum(thismask) < 0.10
TooMuchMasked(fw, mask) == Cardinality(fw) * 10 < Cardinality(mask)

\* lines 97-118
FwhmMask(mask, objs, box) ==
    IF Len(objs) > 0 /\ TooMuchMasked(MaskAroundObjects(mask, objs, box), mask)
    THEN CopyOfMask(mask)
    ELSE MaskAroundObjects(mask, objs, box)

\* the rule of the commented lines 122-125: OR whenever no boxcar radius is given
UseOr_BoxOnly(box, objs) == box = NoValue

\* lines 137-138
UseOr(box, objs) ==
    /\ box = NoValue
    /\ \A i \in DOMAIN objs : objs[i].smash_peakflux # NoValue
    /\ \A i \in DOMAIN objs : objs[i].smash_peakflux # Some(0)

\* lines 137-147
CombineMasks(mask, flux, fw, box, objs) ==
    IF UseOr(box, objs) THEN (flux \cup fw) \cap mask ELSE (flux \cap fw) \cap mask

\* the arguments of a call
SkyInit ==
    /\ EchIdle /\ SlitIdle /\ FnIdle
    /\ sky_pc = "objflux"
    /\ thismask \in SkySlits
    /\ \E n \in SkyObjCounts : sky_sobjs \in [1..n -> SkyObjects(thismask)]
    /\ box_rad_pix \in {NoValue, Some(1), Some(3)}
    /\ skymask_objflux = {} /\ skymask_fwhm = {} /\ skymask = {}

\* lines 68-95
SkyObjflux ==
    /\ sky_pc = "objflux"
    /\ skymask_objflux' = ObjfluxMask(thismask, sky_sobjs)
    /\ sky_pc' = "fwhm"
    /\ UNCHANGED <<sky_sobjs, thismask, box_rad_pix, skymask_fwhm, skymask>>
    /\ UNCHANGED <<echvars, slitvars, fnvars>>

\* lines 96-118
SkyFwhm ==
    /\ sky_pc = "fwhm"
    /\ skymask_fwhm' = FwhmMask(thismask, sky_sobjs, box_rad_pix)
    /\ sky_pc' = "combine"
    /\ UNCHANGED <<sky_sobjs, thismask, box_rad_pix, skymask_objflux, skymask>>
    /\ UNCHANGED <<echvars, slitvars, fnvars>>

\* lines 120-147
SkyCombine ==
    /\ sky_pc = "combine"
    /\ skymask' = CombineMasks(thismask, skymask_objflux, skymask_fwhm, box_rad_pix, sky_sobjs)
    /\ sky_pc' = "done"
    /\ UNCHANGED <<sky_sobjs, thismask, box_rad_pix, skymask_objflux, skymask_fwhm>>
    /\ UNCHANGED <<echvars, slitvars, fnvars>>

SkyNext == SkyObjflux \/ SkyFwhm \/ SkyCombine

SpecSky == SkyInit /\ [][SkyNext]_vars

(* ---- objs_in_slit (lines 873-1415) ---- *)
\* nsamp: the rectified slit has NSamp spatial bins and spans the columns 0..NSamp-1 of an
\* image that is one column wider, with a vertical left boundary at column 0
NSamp == 4

\* defaults of the keyword arguments snr_thresh and extract_maskwidth
snr_thresh == 10

extract_maskwidth == 4

\* FWHM values are kept in quarter pixels
FwhmUnit == 4

\* the argument fwhm: 2 pixels
fwhm == 2 * FwhmUnit

Bins == 0..(NSamp - 1)

\* a real square root rounded down
ISqrt(n) == CHOOSE r \in 0..n : r * r <= n /\ n < (r + 1) * (r + 1)

\* a hand aperture of the dictionary: its column, and its FWHM or None; the column NSamp
\* is off the slit
HandApertures ==
    {[spat |-> s, fwhm |-> f] : s \in {0, 2}, f \in {NoValue, Some(2), Some(5 * FwhmUnit)}}
        \cup {[spat |-> NSamp, fwhm |-> NoValue]}

\* the S/N a peak of the smoothed profile can have
PeakSNRs == {12, 30}

\* arc.detect_peaks(snr_smash_smth, mph=snr_thresh, mpd=fwhm*0.75): the bins of the peaks,
\* increasing and at least mpd apart, each of height at least mph
PeakBinSets ==
    {S \in SUBSET Bins : \A a, b \in S : a # b => 4 * FwhmUnit * Abs(a - b) >= 3 * fwhm}

PeaksOn(S) ==
    {[x |-> SortedSeqOf(S), snr |-> AsArray(h)] :
        h \in [1..Cardinality(S) -> {v \in PeakSNRs : v >= snr_thresh}]}

detect_peaks == UNION {PeaksOn(S) : S \in PeakBinSets}

\* snr_smash_smth and flux_smash_smth at bin b (lines 1126-1127): the height of the peak
\* at b, a background of 1 elsewhere; the flux is twice the S/N
snr_smash_smth(xs, snrs, b) ==
    IF \E k \in DOMAIN xs : xs[k] = b THEN snrs[CHOOSE k \in DOMAIN xs : xs[k] = b] ELSE 1

flux_smash_smth(xs, snrs, b) == 2 * snr_smash_smth(xs, snrs, b)

\* the margin test that also discards a peak exactly on the margin
NearEdge_Inclusive(x, trim) == x <= trim[1] \/ x >= NSamp - trim[2]

\* line 1135
NearEdge(x, trim) == x < trim[1] \/ x > NSamp - trim[2]

near_edge(xs, trim) == AsArray([k \in DOMAIN xs |-> NearEdge(xs[k], trim)])

\* line 1136
npeak_not_near_edge(bpm) == Cardinality({k \in DOMAIN bpm : ~bpm[k]})

\* lines 1148-1152: the branch that computes nperslit_bpm from the S/N is entered
NPerSlitApplies(nper, bpm) == nper # NoValue /\ nper[1] < npeak_not_near_edge(bpm)

\* the floor left out
MeasuredFWHM_NoFloor(m) == ISqrt(IF m * m > fwhm * fwhm THEN m * m - fwhm * fwhm ELSE 0)

\* line 1257: np.sqrt(np.fmax(fwhm_measure**2 - fwhm**2, (fwhm/2.0)**2))
MeasuredFWHM(m) ==
    ISqrt(IF m * m - fwhm * fwhm > (fwhm \div 2) * (fwhm \div 2)
          THEN m * m - fwhm * fwhm ELSE (fwhm \div 2) * (fwhm \div 2))

\* the widths fwhm_measure can come out as (lines 1213-1254), None included
FwhmMeasures == {NoValue, Some(FwhmUnit), Some(10)}

\* lines 1209-1259
AutoFWHM(user, m) == IF user \/ m = NoValue THEN fwhm ELSE MeasuredFWHM(m[1])

\* lines 1180-1204, 1208-1263, 1287-1290: the automatic detection at peak k; line 1263
\* assigns BOX_RADIUS = boxcar_rad
NewAuto(xs, snrs, k, user, m, shift) ==
    [SPAT_FRACPOS |-> xs[k],
     smash_peakflux |-> Some(flux_smash_smth(xs, snrs, xs[k])),
     smash_snr |-> Some(snrs[k]),
     SPAT_PIXPOS |-> xs[k] + shift,
     FWHM |-> AutoFWHM(user, m),
     BOX_RADIUS |-> boxcar_rad,
     hand_extract_flag |-> FALSE,
     OBJID |-> NoValue,
     maskwidth |-> NoValue]

\* lines 1170-1290
AutoObjects(xs, snrs, gpm, user, meas, shifts) ==
    Pick([k \in DOMAIN xs |-> NewAuto(xs, snrs, k, user, meas[k], shifts[k])],
         {k \in DOMAIN xs : gpm[k]})

\* line 1299: the apertures whose pixel is on the slit, in the order of the dictionary
hand_on_slit(aps) == Pick(aps, {k \in DOMAIN aps : aps[k].spat \in Bins})

\* line 1313: np.median(sobjs.FWHM); the FWHM of the automatic detections are even
med_fwhm_reg(regs) == Median2([i \in DOMAIN regs |-> regs[i].FWHM]) \div 2

\* lines 1343-1348
HandFWHM(ap, regs) ==
    IF ap.fwhm # NoValue THEN ap.fwhm[1]
    ELSE IF Len(regs) > 0 THEN med_fwhm_reg(regs) ELSE fwhm

\* lines 1323-1350: the object of a hand aperture placed at spec = specmid; line 1333
\* assigns smash_peakflux a second time, and smash_snr is never assigned
HandObject(ap, regs, xs, snrs) ==
    [SPAT_FRACPOS |-> ap.spat,
     smash_peakflux |-> Some(snr_smash_smth(xs, snrs, ap.spat)),
     smash_snr |-> NoValue,
     SPAT_PIXPOS |-> ap.spat,
     FWHM |-> HandFWHM(ap, regs),
     BOX_RADIUS |-> boxcar_rad,
     hand_extract_flag |-> TRUE,
     OBJID |-> NoValue,
     maskwidth |-> NoValue]

\* lines 1293-1352
WithHandApertures(regs, dict, xs, snrs) ==
    IF dict.given
    THEN regs \o [k \in DOMAIN hand_on_slit(dict.aps) |->
                     HandObject(hand_on_slit(dict.aps)[k], regs, xs, snrs)]
    ELSE regs

\* the collision test without the boundary
close_Strict(reg, hand) ==
    5 * FwhmUnit * Abs(reg.SPAT_PIXPOS - hand.SPAT_PIXPOS) < 3 * hand.FWHM

\* line 1370: |SPAT_PIXPOS - spat_pixpos[ihand]| <= 0.6*spec_fwhm[ihand]
close(reg, hand) ==
    5 * FwhmUnit * Abs(reg.SPAT_PIXPOS - hand.SPAT_PIXPOS) <= 3 * hand.FWHM

\* lines 1357-1377
DeleteCollisions(objs, nobj_reg, dict) ==
    IF nobj_reg > 0 /\ dict.given
    THEN Pick(objs, {i \in DOMAIN objs :
                        \/ objs[i].hand_extract_flag
                        \/ ~\E j \in DOMAIN objs :
                              objs[j].hand_extract_flag /\ close(objs[i], objs[j])})
    ELSE objs

\* the collection left in the order it was built
SortByPixpos_Unsorted(objs) == objs

\* lines 1385-1386: sobjs[spat_pixpos.argsort()]
SortByPixpos(objs) == Take(objs, ArgSort([i \in DOMAIN objs |-> objs[i].SPAT_PIXPOS]))

\* line 1388
AssignObjids(objs) == AsArray([i \in DOMAIN objs |-> [objs[i] EXCEPT !.OBJID = Some(i)]])

\* 1.0 + 0.5*np.log10(s) in thousandths, for the S/N of PeakSNRs and for 1
MaskwidthFactor(s) == CASE s = 1 -> 1000 [] s = 12 -> 1540 [] s = 30 -> 1739

\* line 1392; np.fmax passes the 1.0 when the S/N read is not a number
AssignMaskwidth(obj) ==
    [obj EXCEPT !.maskwidth =
        Some(extract_maskwidth * obj.FWHM
               * MaskwidthFactor(IF obj.smash_snr = NoValue THEN 1 ELSE obj.smash_snr[1]))]

AssignMaskwidths(objs) == AsArray([i \in DOMAIN objs |-> AssignMaskwidth(objs[i])])

\* peak_thresh is kept in hundredths
PeakThreshUnit == 100

\* the check without its upper bound
InvalidPeakThresh_NoUpper(p) == p < 0

\* line 1042
InvalidPeakThresh(p) == p < 0 \/ p > PeakThreshUnit

\* the arguments of a call: peak_thresh (in hundredths) and abs_thresh, trim_edg, nperslit,
\* use_user_fwhm, hand_extract_dict (not given, or one aperture) and boxcar_rad
SlitInit ==
    /\ EchIdle /\ SkyIdle /\ FnIdle
    /\ slit_pc = "check"
    /\ \E t \in {<<-1, 0>>, <<0, 0>>, <<0, 15>>, <<50, 0>>, <<100, 0>>, <<101, 0>>} :
          peak_thresh = t[1] /\ abs_thresh = t[2]
    /\ trim_edg \in {<<1, 1>>, <<1, 2>>}
    /\ nperslit \in {NoValue, Some(1)}
    /\ use_user_fwhm \in BOOLEAN
    /\ hand_extract_dict \in
          {[given |-> FALSE, aps |-> <<>>]} \cup {[given |-> TRUE, aps |-> <<a>>] : a \in HandApertures}
    /\ boxcar_rad \in {Some(7), NoValue}
    /\ x_peaks_all = <<>> /\ snr_peaks_all = <<>> /\ near_edge_bpm = <<>> /\ peaks_gpm = <<>>
    /\ slit_sobjs = <<>> /\ slit_ret = "none"

\* lines 1032-1043
SlitCheckArgs ==
    /\ slit_pc = "check"
    /\ IF InvalidPeakThresh(peak_thresh)
       THEN slit_pc' = "done" /\ slit_ret' = "msgs_error"
       ELSE slit_pc' = "smash" /\ slit_ret' = slit_ret
    /\ UNCHANGED <<peak_thresh, abs_thresh, trim_edg, nperslit, use_user_fwhm, hand_extract_dict,
                   boxcar_rad,                   x_peaks_all, snr_peaks_all, near_edge_bpm, peaks_gpm, slit_sobjs>>
    /\ UNCHANGED <<echvars, skyvars, fnvars>>

\* lines 1045-1133: no spatial bin has enough good pixels and the call returns an empty
\* collection, or the peaks of the smoothed S/N profile are found
SlitSmash ==
    /\ slit_pc = "smash"
    /\ \/ /\ slit_pc' = "done" /\ slit_ret' = "empty"
          /\ UNCHANGED <<x_peaks_all, snr_peaks_all>>
       \/ /\ \E p \in detect_peaks : x_peaks_all' = p.x /\ snr_peaks_all' = p.snr
          /\ slit_pc' = "trim" /\ slit_ret' = slit_ret
    /\ UNCHANGED <<peak_thresh, abs_thresh, trim_edg, nperslit, use_user_fwhm, hand_extract_dict,
                   boxcar_rad,                   near_edge_bpm, peaks_gpm, slit_sobjs>>
    /\ UNCHANGED <<echvars, skyvars, fnvars>>

\* lines 1135-1158: with nperslit below the number of peaks off the margins, line 1152
\* evaluates (bool array & float array) < int and raises a TypeError
SlitTrim ==
    /\ slit_pc = "trim"
    /\ near_edge_bpm' = near_edge(x_peaks_all, trim_edg)
    /\ IF NPerSlitApplies(nperslit, near_edge(x_peaks_all, trim_edg))
       THEN slit_pc' = "done" /\ slit_ret' = "TypeError" /\ peaks_gpm' = peaks_gpm
       ELSE /\ slit_pc' = "objects" /\ slit_ret' = slit_ret
            /\ peaks_gpm' = AsArray([k \in DOMAIN x_peaks_all |->
                                        ~near_edge(x_peaks_all, trim_edg)[k]])
    /\ UNCHANGED <<peak_thresh, abs_thresh, trim_edg, nperslit, use_user_fwhm, hand_extract_dict,
                   boxcar_rad,                   x_peaks_all, snr_peaks_all, slit_sobjs>>
    /\ UNCHANGED <<echvars, skyvars, fnvars>>

\* the outcomes of the width measurement and of the trace fit (lines 1273-1289, which move
\* the trace at specmid by no column or by one), one per peak; a peak that makes no
\* detection has neither
PeakOutcomes(gpm, user) ==
    {o \in [DOMAIN gpm -> [m : FwhmMeasures, shift : {0, 1}]] :
        \A k \in DOMAIN gpm :
            /\ (user \/ ~gpm[k]) => o[k].m = NoValue
            /\ ~gpm[k] => o[k].shift = 0}

\* lines 1170-1290
SlitMakeObjects ==
    /\ slit_pc = "objects"
    /\ \E o \in PeakOutcomes(peaks_gpm, use_user_fwhm) :
          slit_sobjs' = AutoObjects(x_peaks_all, snr_peaks_all, peaks_gpm, use_user_fwhm,
                                    [k \in DOMAIN o |-> o[k].m], [k \in DOMAIN o |-> o[k].shift])
    /\ IF Len(slit_sobjs') = 0 /\ ~hand_extract_dict.given
       THEN slit_pc' = "done" /\ slit_ret' = "empty"
       ELSE slit_pc' = "hand" /\ slit_ret' = slit_ret
    /\ UNCHANGED <<peak_thresh, abs_thresh, trim_edg, nperslit, use_user_fwhm, hand_extract_dict,
                   boxcar_rad,                   x_peaks_all, snr_peaks_all, near_edge_bpm, peaks_gpm>>
    /\ UNCHANGED <<echvars, skyvars, fnvars>>

\* lines 1292-1381
SlitHandApertures ==
    /\ slit_pc = "hand"
    /\ slit_sobjs' = DeleteCollisions(
                         WithHandApertures(slit_sobjs, hand_extract_dict, x_peaks_all, snr_peaks_all),
                         Len(slit_sobjs), hand_extract_dict)
    /\ IF Len(slit_sobjs') = 0
       THEN slit_pc' = "done" /\ slit_ret' = "empty"
       ELSE slit_pc' = "finish" /\ slit_ret' = slit_ret
    /\ UNCHANGED <<peak_thresh, abs_thresh, trim_edg, nperslit, use_user_fwhm, hand_extract_dict,
                   boxcar_rad,                   x_peaks_all, snr_peaks_all, near_edge_bpm, peaks_gpm>>
    /\ UNCHANGED <<echvars, skyvars, fnvars>>

\* what the read of smash_snr on line 1392 can do: an object whose smash_snr was never
\* assigned either makes np.fmax raise or leaves it the 1.0
SnrReadOutcomes(objs) ==
    IF \E i \in DOMAIN objs : objs[i].smash_snr = NoValue
    THEN {"TypeError", "returned"} ELSE {"returned"}

\* lines 1383-1415: the sort, the OBJIDs, the mask widths, then the check of every object
\* (msgs.error on the first that fails) and the return
SlitFinish ==
    /\ slit_pc = "finish"
    /\ \E out \in SnrReadOutcomes(slit_sobjs) :
          /\ slit_sobjs' = IF out = "returned"
                           THEN AssignMaskwidths(AssignObjids(SortByPixpos(slit_sobjs)))
                           ELSE AssignObjids(SortByPixpos(slit_sobjs))
          /\ slit_ret' = IF out = "returned" /\ ~Vetted(slit_sobjs') THEN "bad_specobj" ELSE out
    /\ slit_pc' = "done"
    /\ UNCHANGED <<peak_thresh, abs_thresh, trim_edg, nperslit, use_user_fwhm, hand_extract_dict,
                   boxcar_rad,                   x_peaks_all, snr_peaks_all, near_edge_bpm, peaks_gpm>>
    /\ UNCHANGED <<echvars, skyvars, fnvars>>

SlitNext ==
    SlitCheckArgs \/ SlitSmash \/ SlitTrim \/ SlitMakeObjects \/ SlitHandApertures \/ SlitFinish

SpecSlit == SlitInit /\ [][SlitNext]_vars

(* ---- single steps of the finders, each on inputs of its own ---- *)
\* the spectral rows of the rectified image that objs_in_slit smashes
NSmash == 3

\* the orders of a call of ech_objfind that has enough of them for the linear fit of the
\* fractional positions
NFitOrders == 5

\* lines 1058-1065 and 1068-1075 for one of the two arguments: None becomes a new list
\* [None, None]; an element that is None is assigned its default by item assignment, which
\* a tuple does not support (TypeError) and which changes a list in place
FillNone(arg, defaults) ==
    LET a0 == IF arg.kind = "None" THEN [kind |-> "list", v |-> arg.v, own |-> TRUE] ELSE arg
    IN  IF \A k \in 1..2 : a0.v[k] # NoValue
        THEN [err |-> FALSE, val |-> a0, altered |-> FALSE]
        ELSE IF a0.kind = "tuple"
        THEN [err |-> TRUE, val |-> a0, altered |-> FALSE]
        ELSE [err |-> FALSE,
              val |-> [a0 EXCEPT !.v = [k \in 1..2 |->
                                           IF a0.v[k] = NoValue THEN defaults[k] ELSE a0.v[k]]],
              altered |-> ~a0.own]

\* lines 1058-1075: the slit covers the rows 0..NSmash-1 of thismask
min_max(smm, fmm) ==
    LET s == FillNone(smm, <<Some(0), Some(NSmash - 1)>>)
        f == FillNone(fmm, s.val.v)
    IN  IF s.err
        THEN [err |-> TRUE, spec_min_max |-> s.val.v, find_min_max |-> fmm.v, altered |-> FALSE]
        ELSE [err |-> f.err, spec_min_max |-> s.val.v, find_min_max |-> f.val.v,
              altered |-> s.altered \/ f.altered]

\* lines 1106-1109 for one spatial bin: gpm is the column of gpm_sigclip, lo and hi are
\* find_min_max; row r of image_rect - sky_rect holds the flux 2^r, so that a sum tells
\* which rows went into it
smash(gpm, lo, hi) ==
    LET nsmash == hi - lo + 1
        sliced == SortedSeqOf(lo..(hi - 1))
        npix_smash == SumSeq(AsArray([k \in DOMAIN sliced |-> IF gpm[sliced[k]] THEN 1 ELSE 0]))
    IN  [npix_smash |-> npix_smash,
         gpm_smash |-> 10 * npix_smash > 3 * nsmash,
         flux_sum_smash |->
             SumSeq(AsArray([k \in DOMAIN sliced |->
                                IF gpm[sliced[k]] THEN 2 ^ sliced[k] ELSE 0]))]

\* np.clip
Clip(x, lo, hi) == IF x < lo THEN lo ELSE IF x > hi THEN hi ELSE x

\* the order whose slit holds column c of an image nspat columns wide: two orders, side by
\* side, each spanning every row
OrderAt(c, nspat) == IF c < nspat \div 2 THEN 0 ELSE 1

\* <<slit_left, slit_righ>> of order iord on any row
SlitEdges(iord, nspat) == IF iord = 0 THEN <<0, nspat \div 2>> ELSE <<nspat \div 2, nspat>>

\* lines 405-412 for one hand aperture; spec and spat are in half pixels (Round1000 is
\* np.round of a value given in halves), f_spat is the fraction <<numerator, denominator>>
hand_prep(nspec, nspat, spec, spat) ==
    LET ispec == Clip(Round1000(spec), 0, nspec - 1)
        ispat == Clip(Round1000(spat), 0, nspec - 1)
        iord_hand == OrderAt(ispat, nspat)
    IN  IF ispat > nspat - 1
        THEN [err |-> "IndexError", ispec |-> ispec, ispat |-> ispat, iord_hand |-> -1,
              f_spat |-> <<0, 1>>]
        ELSE [err |-> "none", ispec |-> ispec, ispat |-> ispat, iord_hand |-> iord_hand,
              f_spat |-> <<spat - 2 * SlitEdges(iord_hand, nspat)[1],
                           2 * (SlitEdges(iord_hand, nspat)[2] - SlitEdges(iord_hand, nspat)[1])>>]

\* fitting.robust_fit of order 1 followed by eval at x: on points that lie on one straight
\* line, the value of that line
robust_fit_eval(xs, ys, x) ==
    ys[1] + ((ys[2] - ys[1]) * (x - xs[1])) \div (xs[2] - xs[1])

\* a linear fit used from three orders on
frac_mean_new_FromThree(goodorder, frac_mean_good, ufrac) ==
    [o \in 0..(NFitOrders - 1) |->
        IF Cardinality(goodorder) >= 3 /\ Cardinality(goodorder) < NFitOrders /\ o \notin goodorder
        THEN robust_fit_eval([k \in 1..Cardinality(goodorder) |-> order_vec(SortedSeqOf(goodorder)[k])],
                             [k \in 1..Cardinality(goodorder) |-> frac_mean_good[SortedSeqOf(goodorder)[k]]],
                             order_vec(o))
        ELSE IF Cardinality(goodorder) >= 3 /\ Cardinality(goodorder) < NFitOrders
        THEN frac_mean_good[o]
        ELSE ufrac]

\* lines 544-577: frac_mean_new on every order of a call with NFitOrders orders, for a
\* group detected on the orders goodorder with mean fractional positions frac_mean_good
frac_mean_new(goodorder, frac_mean_good, ufrac) ==
    [o \in 0..(NFitOrders - 1) |->
        IF Cardinality(goodorder) > 3 /\ Cardinality(goodorder) < NFitOrders
        THEN IF o \in goodorder
             THEN frac_mean_good[o]
             ELSE robust_fit_eval(
                      [k \in 1..Cardinality(goodorder) |-> order_vec(SortedSeqOf(goodorder)[k])],
                      [k \in 1..Cardinality(goodorder) |-> frac_mean_good[SortedSeqOf(goodorder)[k]]],
                      order_vec(o))
        ELSE ufrac]

\* the inputs of a step. min_max: spec_min_max and find_min_max as the caller passes them,
\* None or a tuple or list of two rows of which either may be None (own marks a list the
\* call made itself). smash: a column of gpm_sigclip and find_min_max. hand_prep: the shape
\* of the image and the aperture in half pixels. fit: the orders a group is detected on,
\* its mean position a + b*order on them, and its median position
FnInit ==
    /\ EchIdle /\ SkyIdle /\ SlitIdle
    /\ fn_pc = "call" /\ fn_out = NoValue
    /\ LET MinMaxArgs ==
               {[kind |-> "None", v |-> <<NoValue, NoValue>>, own |-> FALSE]}
                 \cup {[kind |-> k, v |-> <<a, b>>, own |-> FALSE] :
                          k \in {"tuple", "list"}, a \in {NoValue, Some(0)}, b \in {NoValue, Some(1)}}
       IN  fn_in \in
             {[fn |-> "min_max", spec_min_max |-> s, find_min_max |-> f] : s, f \in MinMaxArgs}
               \cup {[fn |-> "smash", gpm |-> g, lo |-> lo, hi |-> hi] :
                        g \in [0..(NSmash - 1) -> BOOLEAN],
                        lo \in 0..(NSmash - 1), hi \in 0..(NSmash - 1)}
               \cup {[fn |-> "hand_prep", nspec |-> sh[1], nspat |-> sh[2], spec |-> sp, spat |-> x] :
                        sh \in {<<NSpec, NSpat>>, <<NSpat, NSpec>>}, sp \in {0, 1},
                        x \in (-1)..(2 * NSpat)}
               \cup {[fn |-> "fit", goodorder |-> G, a |-> a, b |-> b, ufrac |-> u] :
                        G \in (SUBSET (0..(NFitOrders - 1))) \ {{}},
                        a \in {400, 600}, b \in {-20, 0, 20}, u \in {200, 1000}}

\* lines 1058-1075
MinMaxDefaults ==
    /\ fn_pc = "call" /\ fn_in.fn = "min_max"
    /\ fn_out' = min_max(fn_in.spec_min_max, fn_in.find_min_max)
    /\ fn_pc' = "done"
    /\ UNCHANGED <<fn_in, echvars, skyvars, slitvars>>

\* lines 1106-1109
SmashBin ==
    /\ fn_pc = "call" /\ fn_in.fn = "smash"
    /\ fn_in.lo <= fn_in.hi
    /\ fn_out' = smash(fn_in.gpm, fn_in.lo, fn_in.hi)
    /\ fn_pc' = "done"
    /\ UNCHANGED <<fn_in, echvars, skyvars, slitvars>>

\* lines 400-413
HandPrep ==
    /\ fn_pc = "call" /\ fn_in.fn = "hand_prep"
    /\ fn_out' = hand_prep(fn_in.nspec, fn_in.nspat, fn_in.spec, fn_in.spat)
    /\ fn_pc' = "done"
    /\ UNCHANGED <<fn_in, echvars, skyvars, slitvars>>

\* lines 539-577: the group's mean position on order o is a + b*o
FitFractions ==
    /\ fn_pc = "call" /\ fn_in.fn = "fit"
    /\ fn_out' = frac_mean_new(fn_in.goodorder,
                               [o \in 0..(NFitOrders - 1) |-> fn_in.a + fn_in.b * order_vec(o)],
                               fn_in.ufrac)
    /\ fn_pc' = "done"
    /\ UNCHANGED <<fn_in, echvars, skyvars, slitvars>>

(* ---- both finders and their steps ---- *)
\* objs_in_slit on one slit, ech_objfind with hand apertures, or one of the single steps
SpecFind == (Init \/ SlitInit \/ FnInit) /\ [][NextAndHand \/ SlitNext \/ MinMaxDefaults \/ SmashBin \/ HandPrep \/ FitFractions]_vars


(***************************************************************************)
(* Properties                                                              *)
(***************************************************************************)
Dets == DOMAIN sobjs

PosOf(i) == sobjs[i].SPAT_FRACPOS

OrdOf(i) == sobjs[i].ECH_ORDERINDX

\* the positions of i and j differ by less than FOF_frac
Closer(i, j) == Abs(PosOf(i) - PosOf(j)) * FOF_frac_den < FOF_frac_num

\* the positions of i and j differ by more than FOF_frac
Farther(i, j) == Abs(PosOf(i) - PosOf(j)) * FOF_frac_den > FOF_frac_num

\* the members of i's initial group on i's order, and on the other orders
SameGroupOn(i) == {j \in Dets : obj_id_init[j] = obj_id_init[i] /\ OrdOf(j) = OrdOf(i)}

SameGroupOff(i) == {j \in Dets : obj_id_init[j] = obj_id_init[i] /\ OrdOf(j) # OrdOf(i)}

RECURSIVE PosSum(_)
PosSum(S) == IF S = {} THEN 0 ELSE LET x == CHOOSE x \in S : TRUE IN PosOf(x) + PosSum(S \ {x})

\* the distance of j from the mean position of the set S, times the size of S
DistToMean(j, S) == Abs(PosOf(j) * Cardinality(S) - PosSum(S))

\* C1: after duplicate resolution, and through gap filling, no two objects carry the
\* same group ID on the same order, whatever the initial grouping; the fatal error of
\* the gap-filling loop is never raised
C1_OnePerGroupAndOrder ==
    pc \in {"fill", "snr", "done"} =>
        /\ ret # "error"
        /\ Len(obj_id) = Len(sobjs_align)
        /\ \A i, j \in DOMAIN sobjs_align :
              (i # j /\ obj_id[i] = obj_id[j]) =>
                  sobjs_align[i].ECH_ORDERINDX # sobjs_align[j].ECH_ORDERINDX

\* gap filling has run on a grouping that had two detections of a group on one order
C1_Witness ==
    /\ pc = "snr"
    /\ \E i, j \in Dets : i # j /\ obj_id_init[i] = obj_id_init[j] /\ OrdOf(i) = OrdOf(j)

\* C2: of the detections of an initial group on an order where it has several, exactly
\* one keeps the group ID: one closest to the mean position of the group's members on
\* the other orders, or the first when there are none; each of the others has a new ID
\* that no other detection carries
C2_ClosestKeepsId ==
    pc = "fill" =>
        \A i \in Dets :
            Cardinality(SameGroupOn(i)) > 1 =>
                /\ \E r \in SameGroupOn(i) : obj_id[r] = obj_id_init[i]
                /\ IF obj_id[i] = obj_id_init[i]
                   THEN IF SameGroupOff(i) # {}
                        THEN \A j \in SameGroupOn(i) :
                                DistToMean(i, SameGroupOff(i)) <= DistToMean(j, SameGroupOff(i))
                        ELSE \A j \in SameGroupOn(i) : i <= j
                   ELSE /\ \A m \in Dets : obj_id_init[m] # obj_id[i]
                        /\ \A m \in Dets : m # i => obj_id[m] # obj_id[i]

\* duplicate resolution kept a detection that is not the first of its group on its
\* order, the group being present on another order
C2_Witness ==
    /\ pc = "fill"
    /\ \E i, j \in Dets :
          /\ j < i /\ j \in SameGroupOn(i) /\ SameGroupOff(i) # {}
          /\ obj_id[i] = obj_id_init[i] /\ obj_id[j] # obj_id_init[j]

\* C3 as stated: after grouping and duplicate resolution, two detections on different
\* orders closer than FOF_frac carry the same group ID
C3_Original ==
    pc = "fill" =>
        \A i, j \in Dets : (OrdOf(i) # OrdOf(j) /\ Closer(i, j)) => obj_id[i] = obj_id[j]

\* i was given a new ID on an order that it shares with another member of its group
Displaced(i) == obj_id[i] # obj_id_init[i] /\ \E m \in SameGroupOn(i) : m # i

\* C3 amended: two detections on different orders closer than FOF_frac are in the same
\* initial group, and carry the same group ID after duplicate resolution unless one of
\* them shares its order with another member of the group and was given a new ID there
C3_SameGroupUnlessDisplaced ==
    pc = "fill" =>
        \A i, j \in Dets :
            (OrdOf(i) # OrdOf(j) /\ Closer(i, j)) =>
                /\ obj_id_init[i] = obj_id_init[j]
                /\ (obj_id[i] # obj_id[j] => (Displaced(i) \/ Displaced(j)))

\* two close detections on different orders kept their common ID while a third
\* detection of the group was popped out
C3_Witness ==
    /\ pc = "fill"
    /\ \E i, j, m \in Dets :
          /\ OrdOf(i) # OrdOf(j) /\ Closer(i, j) /\ obj_id[i] = obj_id[j]
          /\ m \in SameGroupOn(i) /\ Displaced(m)

\* C4 as stated: two detections farther apart than FOF_frac are in different groups
C4_Original ==
    pc = "resolve" => \A i, j \in Dets : Farther(i, j) => obj_id_init[i] # obj_id_init[j]

\* between i and j the detections leave a gap wider than FOF_frac
GapBetween(i, j) ==
    \E a \in Dets :
        /\ PosOf(i) <= PosOf(a) /\ PosOf(a) < PosOf(j)
        /\ \A k \in Dets : PosOf(k) <= PosOf(a) \/ (PosOf(k) - PosOf(a)) * FOF_frac_den > FOF_frac_num

\* C4 amended: two detections are in different groups, after grouping and still after
\* duplicate resolution, whenever the detections lying between them leave a gap wider
\* than FOF_frac; without such a gap they are in the same initial group
C4_DifferentGroupsAcrossGap ==
    /\ pc = "resolve" => \A i, j \in Dets : GapBetween(i, j) => obj_id_init[i] # obj_id_init[j]
    /\ pc = "resolve" =>
          \A i, j \in Dets :
              (~GapBetween(i, j) /\ ~GapBetween(j, i)) => obj_id_init[i] = obj_id_init[j]
    /\ pc = "fill" => \A i, j \in Dets : GapBetween(i, j) => obj_id[i] # obj_id[j]

\* duplicate resolution has given a new ID to a detection while a gap separates two
\* detections
C4_Witness ==
    /\ pc = "fill"
    /\ \E i, j \in Dets : GapBetween(i, j)
    /\ \E i \in Dets : obj_id[i] # obj_id_init[i]

NObj == Len(uni_obj_id)

\* pruning has run
AfterPrune == pc = "refine" \/ (pc = "done" /\ Len(sobjs) > 0 /\ ret # "error")

\* the call is about to return, or has returned, a non-empty collection
HasFinal == pc = "refine" \/ (pc = "done" /\ ret = "final")

\* the number of groups pruning kept
NKept == Cardinality({k \in DOMAIN keep_obj : keep_obj[k]})

\* the S/N constraint on group k: its largest S/N exceeds max_snr, or at least
\* nabove_min_snr orders exceed min_snr
SNROk(k) ==
    \/ \E o \in Orders : SNR_arr[o][k] > max_snr
    \/ Cardinality({o \in Orders : SNR_arr[o][k] > min_snr}) >= nabove_min_snr

\* group k matches a hand-aperture position
IsHand(k) == hand_ap_flag(sobjs_align, uni_obj_id, f_spats, k)

\* the groups in the order pruning visits them
Visit == isort_SNR_max(SNR_arr, NObj)

\* the indices of the final objects with object ID id
FinalOf(id) == {i \in DOMAIN sobjs_final : sobjs_final[i].ECH_OBJID = id}

\* twice the median over the orders of the quick-look S/N of final object id
FinalMedian2(id) == Median2(Pick([i \in DOMAIN sobjs_final |-> sobjs_final[i].ech_snr], FinalOf(id)))

\* C5: a non-empty returned collection holds exactly one object for every final object
\* ID 1..K and every order, K * norders objects in all
C5_OnePerIdAndOrder ==
    HasFinal =>
        /\ NKept > 0
        /\ Len(sobjs_final) = NKept * NOrders
        /\ \A id \in 1..NKept : \A o \in Orders :
              Cardinality({i \in FinalOf(id) : sobjs_final[i].ECH_ORDERINDX = o}) = 1

\* two groups were returned, one of them with an object on an order where it was not
\* detected
C5_Witness ==
    /\ pc = "done" /\ ret = "final" /\ NKept >= 2
    /\ \E i \in DOMAIN sobjs_final : sobjs_final[i].ech_frac_was_fit

\* C6 as stated: a group is kept exactly when it meets the S/N constraint while fewer
\* than nperorder automatic groups were kept before it, or when it matches a hand
\* aperture
C6_Claim ==
    AfterPrune =>
        \A p \in 1..NObj :
            keep_obj[Visit[p]] <=>
                \/ /\ SNROk(Visit[p])
                   /\ Cardinality({q \in 1..(p - 1) : keep_obj[Visit[q]] /\ ~IsHand(Visit[q])}) < nperorder
                \/ IsHand(Visit[p])

\* C7 as stated: every hand-aperture group is kept, and so is each of the first
\* nperorder groups, in rank order, among the automatic ones that meet the S/N constraint
C7_Claim ==
    AfterPrune =>
        /\ \A k \in 1..NObj : IsHand(k) => keep_obj[k]
        /\ \A p \in 1..NObj :
              ( /\ ~IsHand(Visit[p])
                /\ SNROk(Visit[p])
                /\ Cardinality({q \in 1..(p - 1) : ~IsHand(Visit[q]) /\ SNROk(Visit[q])}) < nperorder )
              => keep_obj[Visit[p]]

\* C8: the object IDs of the returned collection are exactly 1..K, every object has
\* OBJID = ECH_OBJID, and a smaller ID never has a smaller median S/N
C8_IdsInRankOrder ==
    HasFinal =>
        /\ {sobjs_final[i].ECH_OBJID : i \in DOMAIN sobjs_final} = 1..NKept
        /\ \A i \in DOMAIN sobjs_final : sobjs_final[i].OBJID = sobjs_final[i].ECH_OBJID
        /\ \A a, b \in 1..NKept : a < b => FinalMedian2(a) >= FinalMedian2(b)

\* two groups of different median S/N were returned
C8_Witness ==
    /\ pc = "done" /\ ret = "final" /\ NKept >= 2
    /\ FinalMedian2(1) > FinalMedian2(2)

\* C9: the refinement step replaces the trace and SPAT_PIXPOS of an object only if its
\* position was fit and its S/N exceeds 1.0, by the refined fit of the object's own
\* order, and leaves every detected object's trace as it was
C9_OnlyFitTracesReplaced ==
    [][pc = "refine" =>
        /\ Len(sobjs_final') = Len(sobjs_final)
        /\ \A i \in DOMAIN sobjs_final :
              /\ ( \/ sobjs_final'[i].TRACE_SPAT # sobjs_final[i].TRACE_SPAT
                   \/ sobjs_final'[i].SPAT_PIXPOS # sobjs_final[i].SPAT_PIXPOS )
                 => /\ sobjs_final[i].ech_frac_was_fit
                    /\ sobjs_final[i].ech_snr > 1
                    /\ sobjs_final'[i].TRACE_SPAT =
                          [kind |-> "refined", iord |-> sobjs_final[i].ECH_ORDERINDX,
                           frac |-> sobjs_final[i].ECH_OBJID]
                    /\ sobjs_final'[i].SPAT_PIXPOS = sobjs_final'[i].TRACE_SPAT
              /\ ~sobjs_final[i].ech_frac_was_fit =>
                    sobjs_final'[i].TRACE_SPAT = sobjs_final[i].TRACE_SPAT]_vars

\* the returned collection holds a replaced trace, a predicted trace that was not
\* replaced, and a detection
C9_Witness ==
    /\ pc = "done" /\ ret = "final"
    /\ \E i \in DOMAIN sobjs_final : sobjs_final[i].TRACE_SPAT.kind = "refined"
    /\ \E i \in DOMAIN sobjs_final : sobjs_final[i].TRACE_SPAT.kind = "predicted"
    /\ \E i \in DOMAIN sobjs_final : ~sobjs_final[i].ech_frac_was_fit

\* C10: the call ends without error; it returns the empty collection exactly when
\* nothing was detected or no group meets the S/N constraint or matches a hand aperture,
\* and a non-empty collection otherwise
C10_EmptyExactlyWhenNothingKept ==
    pc = "done" =>
        /\ ret \in {"empty", "final"}
        /\ ret = "empty" <=> (Len(sobjs) = 0 \/ \A k \in 1..NObj : ~SNROk(k) /\ ~IsHand(k))
        /\ ret = "empty" => sobjs_final = <<>>
        /\ ret = "final" => Len(sobjs_final) > 0

\* detections were found and pruning kept none of their groups
C10_Witness == pc = "done" /\ ret = "empty" /\ Len(sobjs) > 0

\* the on-slit pixels strictly within the masking radius of some object's trace
NearSomeTrace ==
    {px \in thismask :
        \E i \in DOMAIN sky_sobjs :
            Abs(px[2] - sky_sobjs[i].TRACE_SPAT[px[1]]) <
                (IF box_rad_pix # NoValue THEN box_rad_pix[1] ELSE sky_sobjs[i].FWHM)}

\* C11: with an empty object collection create_skymask returns the mask that is True
\* at every on-slit pixel, whether or not a boxcar radius is given
C11_NoObjectsFullSlit ==
    (sky_pc = "done" /\ Len(sky_sobjs) = 0) => skymask = thismask

\* a call with no objects and a boxcar radius has returned
C11_Witness == sky_pc = "done" /\ Len(sky_sobjs) = 0 /\ box_rad_pix # NoValue /\ thismask # {}

\* C12: the flux-based and the geometric mask are combined with OR exactly when no
\* boxcar radius is given and every object has a peak flux that is neither None nor
\* zero, and with AND in every other case
C12_OrOnlyWithoutBoxAndAllFluxes ==
    sky_pc = "done" =>
        IF /\ box_rad_pix = NoValue
           /\ \A i \in DOMAIN sky_sobjs :
                 sky_sobjs[i].smash_peakflux # NoValue /\ sky_sobjs[i].smash_peakflux # Some(0)
        THEN skymask = skymask_objflux \cup skymask_fwhm
        ELSE skymask = skymask_objflux \cap skymask_fwhm

\* no boxcar radius was given, an object has no valid peak flux, and the two masks
\* differ, so that OR and AND give different results
C12_Witness ==
    /\ sky_pc = "done" /\ box_rad_pix = NoValue
    /\ \E i \in DOMAIN sky_sobjs : sky_sobjs[i].smash_peakflux = NoValue
    /\ \E i \in DOMAIN sky_sobjs : sky_sobjs[i].smash_peakflux = Some(5)
    /\ skymask_objflux \cup skymask_fwhm # skymask_objflux \cap skymask_fwhm

\* C13: when masking around the traces would remove more than 90% of the on-slit pixels
\* the geometric mask is the full slit; otherwise it excludes exactly the on-slit pixels
\* strictly within the radius of some trace
C13_GeometricMaskOrFullSlit ==
    sky_pc \in {"combine", "done"} =>
        IF Cardinality(NearSomeTrace) * 10 > 9 * Cardinality(thismask)
        THEN skymask_fwhm = thismask
        ELSE skymask_fwhm = thismask \ NearSomeTrace

\* exactly 90% of the slit is within the radius of a trace and stays masked
C13_Witness ==
    /\ sky_pc = "done"
    /\ Cardinality(NearSomeTrace) * 10 = 9 * Cardinality(thismask)
    /\ skymask_fwhm = thismask \ NearSomeTrace

(* ---- objs_in_slit ---- *)
\* the call has returned a non-empty collection, now in slit_sobjs
Returned == slit_ret = "returned"

AutoInds == {i \in DOMAIN slit_sobjs : ~slit_sobjs[i].hand_extract_flag}

HandInds == {i \in DOMAIN slit_sobjs : slit_sobjs[i].hand_extract_flag}

BrightestPeak == SetMax(Range(snr_peaks_all))

\* C14 (as claimed): no automatic detection returned has a smoothed S/N below peak_thresh
\* times the brightest peak of the profile, or below abs_thresh.
C14_Claim ==
    Returned =>
        \A i \in AutoInds :
            /\ slit_sobjs[i].smash_snr[1] * PeakThreshUnit >= peak_thresh * BrightestPeak
            /\ slit_sobjs[i].smash_snr[1] >= abs_thresh

\* the distances of bin x from the left and from the right slit boundary
FromLeft(x) == x

FromRight(x) == NSamp - x

\* C15: once the peaks are trimmed, a peak is marked near-edge exactly when it is closer
\* than trim_edg[0] to the left boundary or closer than trim_edg[1] to the right one (a
\* peak exactly on the margin is kept), and no automatic detection, at any stage or in the
\* returned collection, sits at the bin of a peak marked near-edge.
C15_NearEdgeDiscarded ==
    /\ slit_pc \notin {"check", "smash", "trim"} =>
          /\ DOMAIN near_edge_bpm = DOMAIN x_peaks_all
          /\ \A k \in DOMAIN x_peaks_all :
                near_edge_bpm[k] <=> \/ FromLeft(x_peaks_all[k]) < trim_edg[1]
                                     \/ FromRight(x_peaks_all[k]) < trim_edg[2]
    /\ \A i \in AutoInds : \A k \in DOMAIN near_edge_bpm :
          near_edge_bpm[k] => slit_sobjs[i].SPAT_FRACPOS # x_peaks_all[k]
    /\ slit_pc \in {"objects", "hand", "finish"} =>
          \A k \in DOMAIN peaks_gpm : peaks_gpm[k] <=> ~near_edge_bpm[k]

\* a peak exactly trim_edg[0] from the left boundary was kept and is returned as an
\* automatic detection, while a peak inside the right margin was discarded
C15_Witness ==
    /\ Returned
    /\ \E k, l \in DOMAIN x_peaks_all :
          /\ FromLeft(x_peaks_all[k]) = trim_edg[1] /\ ~near_edge_bpm[k]
          /\ \E i \in AutoInds : slit_sobjs[i].SPAT_FRACPOS = x_peaks_all[k]
          /\ FromRight(x_peaks_all[l]) = trim_edg[2] - 1 /\ near_edge_bpm[l]

\* the number of peaks off the margins
NSurvivors == Cardinality({k \in DOMAIN near_edge_bpm : ~near_edge_bpm[k]})

\* C16 (as claimed): when nperslit is given and more than nperslit peaks survive the edge
\* trimming, the call ends without an error and exactly nperslit peaks are kept.
C16_Claim ==
    (slit_pc = "done" /\ nperslit # NoValue /\ near_edge_bpm # <<>>
        /\ nperslit[1] < NSurvivors) =>
            /\ slit_ret \in {"returned", "empty"}
            /\ Cardinality({k \in DOMAIN peaks_gpm : peaks_gpm[k]}) = nperslit[1]

AllowedAutoFWHM(f) ==
    \/ f = fwhm
    \/ /\ ~use_user_fwhm
       /\ \E m \in {mm[1] : mm \in FwhmMeasures \ {NoValue}} :
             \/ 4 * (m * m - fwhm * fwhm) >= fwhm * fwhm /\ f * f = m * m - fwhm * fwhm
             \/ 4 * (m * m - fwhm * fwhm) < fwhm * fwhm /\ 4 * f * f = fwhm * fwhm

\* the hand apertures of the dictionary that land on the slit
OnSlitApertures ==
    {hand_extract_dict.aps[k] : k \in {j \in DOMAIN hand_extract_dict.aps :
                                          hand_extract_dict.aps[j].spat \in Bins}}

\* the hand aperture an object of the collection was made from
ApertureOf(obj) == CHOOSE a \in OnSlitApertures : a.spat = obj.SPAT_FRACPOS

\* twice the median of the FWHM of the objects of a collection
FwhmMedian2(objs) == Median2([i \in DOMAIN objs |-> objs[i].FWHM])

C18_SortedWithObjids ==
    Returned =>
        /\ Len(slit_sobjs) > 0
        /\ \A i, j \in DOMAIN slit_sobjs :
              i < j => slit_sobjs[i].SPAT_PIXPOS <= slit_sobjs[j].SPAT_PIXPOS
        /\ \A i \in DOMAIN slit_sobjs : slit_sobjs[i].OBJID = <<i>>

\* a hand aperture, added after the automatic detections, is returned ahead of one
C18_Witness ==
    /\ Returned
    /\ \E i \in HandInds : \E j \in AutoInds : i < j

\* the automatic detection a is within 0.6 times the FWHM of the hand aperture h
WithinSixTenths(a, h) == 10 * FwhmUnit * Abs(a.SPAT_PIXPOS - h.SPAT_PIXPOS) <= 6 * h.FWHM

\* C19: a returned collection, and the collection the hand-aperture step leaves, holds an
\* object for every hand aperture that lands on the slit and no automatic detection
\* within 0.6 times the FWHM of a hand aperture of it; and the hand-aperture step keeps
\* every automatic detection that is farther than that from every hand aperture.
C19_HandAperturesTakePriority ==
    /\ []((slit_pc = "finish" \/ Returned) =>
            /\ \A a \in OnSlitApertures :
                  \E i \in HandInds : slit_sobjs[i].SPAT_PIXPOS = a.spat
            /\ \A i \in AutoInds : \A j \in HandInds :
                  ~WithinSixTenths(slit_sobjs[i], slit_sobjs[j]))
    /\ [][slit_pc = "hand" =>
            \A i \in DOMAIN slit_sobjs :
                (\A j \in DOMAIN slit_sobjs' :
                    slit_sobjs'[j].hand_extract_flag =>
                        ~WithinSixTenths(slit_sobjs[i], slit_sobjs'[j]))
                    => \E k \in DOMAIN slit_sobjs' : slit_sobjs'[k] = slit_sobjs[i]]_vars

\* the number of peaks that became automatic detections
NDetected == Cardinality({k \in DOMAIN peaks_gpm : peaks_gpm[k]})

\* returned: a hand aperture and an automatic detection, another automatic detection
\* having been deleted
C19_Witness ==
    /\ Returned
    /\ HandInds # {} /\ AutoInds # {}
    /\ Cardinality(AutoInds) < NDetected

\* C20: a call with peak_thresh < 0 or peak_thresh > 1 ends in the fatal error with no
\* peaks found and no collection built or returned, and a call with 0 <= peak_thresh <= 1
\* never ends in that error.
C20_PeakThreshRange ==
    /\ (slit_pc # "check" /\ (peak_thresh < 0 \/ peak_thresh > PeakThreshUnit)) =>
          /\ slit_pc = "done" /\ slit_ret = "msgs_error"
          /\ x_peaks_all = <<>> /\ slit_sobjs = <<>>
    /\ (0 <= peak_thresh /\ peak_thresh <= PeakThreshUnit) => slit_ret # "msgs_error"

\* the error was raised for a peak_thresh just above 1
C20_Witness == slit_ret = "msgs_error" /\ peak_thresh = PeakThreshUnit + 1

(* ---- ech_objfind: gap filling and pruning, continued ---- *)
\* the objects gap filling synthesized, and the detections, in sobjs_align
Synthesized == {i \in DOMAIN sobjs_align : sobjs_align[i].ech_frac_was_fit}

DetectedIn(g) ==
    {i \in DOMAIN sobjs_align : ~sobjs_align[i].ech_frac_was_fit /\ sobjs_align[i].ECH_OBJID = g}

\* C24 (as claimed): after gap filling every synthesized object has the FWHM of a
\* detected member of its own group, one that lies on an order nearest to its own.
C24_Claim ==
    pc = "snr" =>
        \A s \in Synthesized :
            \E d \in DetectedIn(sobjs_align[s].ECH_OBJID) :
                /\ sobjs_align[s].FWHM = sobjs_align[d].FWHM
                /\ \A e \in DetectedIn(sobjs_align[s].ECH_OBJID) :
                      Abs(sobjs_align[d].ECH_ORDERINDX - sobjs_align[s].ECH_ORDERINDX)
                          <= Abs(sobjs_align[e].ECH_ORDERINDX - sobjs_align[s].ECH_ORDERINDX)

\* group k holds a hand-placed aperture
ContainsHand(k) ==
    \E i \in DOMAIN sobjs_align :
        sobjs_align[i].ECH_OBJID = uni_obj_id[k] /\ sobjs_align[i].hand_extract_flag

\* twice the median over the orders of the quick-look S/N of group k
GroupMedian2(k) == Median2([o \in 1..NOrders |-> SNR_arr[o - 1][k]])

\* the groups without a hand aperture that pruning kept
KeptAutomatic == {k \in 1..NObj : keep_obj[k] /\ ~ContainsHand(k)}

\* C27: after pruning, whenever a group without a hand aperture is kept, every group
\* without a hand aperture that meets the S/N constraint and has a strictly higher median
\* S/N is kept too, and at most nperorder groups without a hand aperture are kept.
C27_BudgetFollowsRank ==
    AfterPrune =>
        /\ \A a \in KeptAutomatic : \A b \in 1..NObj :
              (~ContainsHand(b) /\ SNROk(b) /\ GroupMedian2(b) > GroupMedian2(a)) => keep_obj[b]
        /\ Cardinality(KeptAutomatic) <= nperorder

\* the budget was used up by two automatic groups and a third, of lower median S/N, was
\* purged though it meets the S/N constraint
C27_Witness ==
    /\ AfterPrune /\ ~f_spats.given
    /\ Cardinality(KeptAutomatic) = nperorder
    /\ \E b \in 1..NObj : ~keep_obj[b] /\ SNROk(b)

\* the place of group k in the order pruning visits the groups
VisitPlace(k) == CHOOSE p \in 1..NObj : Visit[p] = k

\* C30 (as claimed): after pruning every group that holds a hand aperture is kept; a kept group
\* without one meets the S/N constraint and had fewer than nperorder groups without a
\* hand aperture kept before it; and without hand_extract_dict no group is treated as a
\* hand aperture.
C30_Claim ==
    AfterPrune =>
        /\ \A k \in 1..NObj : ContainsHand(k) => keep_obj[k]
        /\ \A k \in KeptAutomatic :
              /\ SNROk(k)
              /\ Cardinality({q \in 1..(VisitPlace(k) - 1) : Visit[q] \in KeptAutomatic}) < nperorder
        /\ ~f_spats.given => \A k \in 1..NObj : ~IsHand(k)

\* C29 (as claimed): every object of the collection, placed by hand or detected, carries
\* by the time the mask widths are computed a smash_peakflux read off the flux profile and
\* a smash_snr read off the S/N profile at its position.
C29_Claim ==
    slit_pc \in {"finish", "done"} =>
        \A i \in DOMAIN slit_sobjs :
            /\ slit_sobjs[i].smash_peakflux =
                  Some(flux_smash_smth(x_peaks_all, snr_peaks_all, slit_sobjs[i].SPAT_FRACPOS))
            /\ slit_sobjs[i].smash_snr =
                  Some(snr_smash_smth(x_peaks_all, snr_peaks_all, slit_sobjs[i].SPAT_FRACPOS))

\* C21: a collection returned by objs_in_slit or by ech_objfind holds only objects whose
\* trace, FWHM, OBJID and box radius are set; a call whose final check finds an object
\* that is not ready ends in the fatal error instead of returning; and the step that
\* returns is the one that made the last change to the collection.
C21_ReturnedObjectsAreReady ==
    /\ [](/\ Returned =>
                \A i \in DOMAIN slit_sobjs :
                    /\ slit_sobjs[i].OBJID # NoValue
                    /\ slit_sobjs[i].BOX_RADIUS # NoValue
          /\ (slit_ret = "bad_specobj") =>
                \E i \in DOMAIN slit_sobjs :
                    slit_sobjs[i].OBJID = NoValue \/ slit_sobjs[i].BOX_RADIUS = NoValue
          /\ ret = "final" => \A i \in DOMAIN sobjs_final : sobjs_final[i].OBJID >= 1
          /\ ret # "bad_specobj")
    /\ [][/\ slit_sobjs' # slit_sobjs => slit_ret = "none"
          /\ sobjs_final' # sobjs_final => ret = "none"]_vars

\* objs_in_slit called with boxcar_rad None built a detection and ended in the fatal
\* error of the final check
C21_Witness ==
    /\ slit_ret = "bad_specobj"
    /\ Len(slit_sobjs) > 0
    /\ \A i \in DOMAIN slit_sobjs : slit_sobjs[i].OBJID # NoValue

\* the detected members, in the returned collection, of the group of object i
FinalDetectedWith(i) ==
    {j \in DOMAIN sobjs_final : /\ sobjs_final[j].ECH_OBJID = sobjs_final[i].ECH_OBJID
                                /\ ~sobjs_final[j].ech_frac_was_fit}

\* C23: an automatic detection of objs_in_slit sits at the bin of a peak that was kept, and
\* bin/nsamp lies in [0, 1]; every object ech_objfind returns has SPAT_FRACPOS and
\* ECH_FRACPOS in [0, 1], and its ECH_FRACPOS is the median of the SPAT_FRACPOS of the
\* detected members of its group.
C23_FractionalPositions ==
    /\ \A i \in AutoInds :
          /\ 0 <= slit_sobjs[i].SPAT_FRACPOS /\ slit_sobjs[i].SPAT_FRACPOS <= NSamp
          /\ \E k \in DOMAIN x_peaks_all :
                peaks_gpm[k] /\ slit_sobjs[i].SPAT_FRACPOS = x_peaks_all[k]
    /\ ret = "final" =>
          \A i \in DOMAIN sobjs_final :
              /\ 0 <= sobjs_final[i].SPAT_FRACPOS /\ sobjs_final[i].SPAT_FRACPOS <= FracUnit
              /\ 0 <= sobjs_final[i].ECH_FRACPOS /\ sobjs_final[i].ECH_FRACPOS <= FracUnit
              /\ FinalDetectedWith(i) # {}
              /\ 2 * sobjs_final[i].ECH_FRACPOS =
                    Median2(Pick(fracpos(sobjs_final), FinalDetectedWith(i)))

\* ech_objfind returned a group whose detected members sit at different positions
C23_Witness ==
    /\ ret = "final"
    /\ \E i, j \in DOMAIN sobjs_final :
          /\ j \in FinalDetectedWith(i) /\ i \in FinalDetectedWith(i)
          /\ sobjs_final[i].SPAT_FRACPOS < sobjs_final[j].SPAT_FRACPOS

(* ---- the single steps ---- *)
\* the single step fn has run
StepDone(fn) == fn_pc = "done" /\ fn_in.fn = fn

\* an argument given as a tuple of which an element is None
TupleWithNone(arg) == arg.kind = "tuple" /\ \E k \in 1..2 : arg.v[k] = NoValue

\* C22 (as claimed): with find_min_max or spec_min_max given as a tuple of which an element
\* is None, the step raises no error, leaves the caller's arguments as they were, and ends
\* with every None of spec_min_max replaced by the extent of the slit and every None of
\* find_min_max by the value of spec_min_max.
C22_Claim ==
    (/\ StepDone("min_max")
     /\ TupleWithNone(fn_in.find_min_max) \/ TupleWithNone(fn_in.spec_min_max)) =>
        /\ ~fn_out.err
        /\ ~fn_out.altered
        /\ \A k \in 1..2 :
              /\ fn_out.spec_min_max[k] =
                    IF fn_in.spec_min_max.v[k] = NoValue
                    THEN <<Some(0), Some(NSmash - 1)>>[k] ELSE fn_in.spec_min_max.v[k]
              /\ fn_out.find_min_max[k] =
                    IF fn_in.find_min_max.v[k] = NoValue
                    THEN fn_out.spec_min_max[k] ELSE fn_in.find_min_max.v[k]

\* the rows of the find range, both ends included, that survive the clipping
Surviving == {r \in fn_in.lo..fn_in.hi : fn_in.gpm[r]}

\* C26 (as claimed): a spatial bin is good exactly when the surviving rows are at least 30%
\* of the rows of the find range, both ends included, and the summed flux is the sum over
\* every surviving row of that range.
C26_Claim ==
    StepDone("smash") =>
        /\ fn_out.gpm_smash <=> 10 * Cardinality(Surviving) >= 3 * (fn_in.hi - fn_in.lo + 1)
        /\ fn_out.flux_sum_smash =
              SumSeq(AsArray([k \in 1..Cardinality(Surviving) |-> 2 ^ SortedSeqOf(Surviving)[k]]))

\* the column of the hand aperture: its rounded position brought into the image
PixelColumn == Clip(Round1000(fn_in.spat), 0, fn_in.nspat - 1)

\* C28 (as claimed): for either shape of the image, ispat is the rounded spat clipped to
\* [0, nspat-1] and f_spat is computed against the order whose slit holds that pixel.
C28_Claim ==
    StepDone("hand_prep") =>
        /\ fn_out.err = "none"
        /\ fn_out.ispat = PixelColumn
        /\ fn_out.iord_hand = OrderAt(PixelColumn, fn_in.nspat)
        /\ fn_out.f_spat =
              <<fn_in.spat - 2 * SlitEdges(OrderAt(PixelColumn, fn_in.nspat), fn_in.nspat)[1],
                2 * (SlitEdges(OrderAt(PixelColumn, fn_in.nspat), fn_in.nspat)[2]
                       - SlitEdges(OrderAt(PixelColumn, fn_in.nspat), fn_in.nspat)[1])>>

\* the mean fractional position observed for the group on order o
ObservedMean(o) == fn_in.a + fn_in.b * order_vec(o)

\* C25: for a group detected on more than three but not all of the orders, frac_mean_new
\* is the value of the straight line through the detected orders on an order where the
\* group is missing and the observed mean on an order where it was detected; for a group
\* detected on at most three orders it is the group's median on every order; and gap
\* filling leaves every object that was in the collection before it as it was.
C25_FitOnlyAboveThreeOrders ==
    /\ [](StepDone("fit") =>
            \A o \in 0..(NFitOrders - 1) :
                /\ (Cardinality(fn_in.goodorder) > 3 /\ Cardinality(fn_in.goodorder) < NFitOrders) =>
                      IF o \in fn_in.goodorder
                      THEN fn_out[o] = ObservedMean(o)
                      ELSE fn_out[o] = ObservedMean(CHOOSE g \in fn_in.goodorder : TRUE)
                                          + fn_in.b * (order_vec(o)
                                               - order_vec(CHOOSE g \in fn_in.goodorder : TRUE))
                /\ Cardinality(fn_in.goodorder) <= 3 => fn_out[o] = fn_in.ufrac)
    /\ [][pc = "fill" =>
            /\ Len(sobjs_align') >= Len(sobjs_align)
            /\ \A i \in DOMAIN sobjs_align : sobjs_align'[i] = sobjs_align[i]]_vars

\* a group detected on four of the orders, with a position that changes from order to
\* order, had its position on the missing order taken from the fit
C25_Witness ==
    /\ StepDone("fit")
    /\ Cardinality(fn_in.goodorder) = 4 /\ fn_in.b # 0
    /\ \E o \in 0..(NFitOrders - 1) : o \notin fn_in.goodorder /\ fn_out[o] # fn_in.ufrac

====
